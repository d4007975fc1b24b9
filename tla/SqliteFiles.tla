----------------------------- MODULE SqliteFiles ------------------------------
(****************************************************************************)
(* What the SQLite file system promises to the pager about the contents and  *)
(* sizes of open files: a block reads as it was last written; a file is as    *)
(* long as its highest write, unless truncated since; a write that fails      *)
(* changes no file; and the only thing that may stop the program is the read  *)
(* of a block below the end of a file that nobody has written (a hole).       *)
(****************************************************************************)
EXTENDS Integers

CONSTANTS
    Files,     \* the files SQLite may have open
    Blocks,    \* the numbers of blocks
    Contents,  \* contents of a block in memory
    Hole       \* a block below the end of its file that was never written

VARIABLES
    file,  \* the open files -> a sequence of blocks, numbered from 0
    buf,   \* the buffer of the last read
    rc     \* the result of the last call

filesVars == <<file, buf, rc>>

FilesInit ==
    /\ file \in [{} -> {}]
    /\ buf \in Contents
    /\ rc = "OK"

With(f, blocks) ==
    [g \in DOMAIN file \cup {f} |-> IF g = f THEN blocks ELSE file[g]]

Open(f) ==
    /\ f \notin DOMAIN file
    /\ file' = With(f, [i \in {} |-> Hole])
    /\ rc' = "OK"
    /\ UNCHANGED buf

Close(f) ==
    /\ file' = [g \in DOMAIN file \ {f} |-> file[g]]
    /\ rc' = "OK"
    /\ UNCHANGED buf

\* A write beyond the end leaves holes in between.
WriteBlock(f, i, d) ==
    /\ file' = With(f, [j \in DOMAIN file[f] \cup 0 .. i |->
                            IF j = i THEN d
                            ELSE IF j \in DOMAIN file[f] THEN file[f][j]
                            ELSE Hole])
    /\ rc' = "OK"
    /\ UNCHANGED buf

WriteFails ==
    /\ rc' = "NOMEM"
    /\ UNCHANGED <<file, buf>>

ReadBlock(f, i) ==
    /\ i \in DOMAIN file[f]
    /\ buf' \in IF file[f][i] = Hole THEN Contents ELSE {file[f][i]}
    /\ rc' = "OK"
    /\ UNCHANGED file

ShortRead(f, i) ==
    /\ i \notin DOMAIN file[f]
    /\ rc' = "SHORT_READ"
    /\ UNCHANGED <<file, buf>>

\* A false alarm: the call does not return.
Alarm(f, i) ==
    /\ i \in DOMAIN file[f]
    /\ file[f][i] = Hole
    /\ buf' \in Contents
    /\ UNCHANGED <<file, rc>>

Truncate(f, n) ==
    /\ file' = With(f, [j \in DOMAIN file[f] \cap 0 .. n - 1 |-> file[f][j]])
    /\ rc' = "OK"
    /\ UNCHANGED buf

Others ==
    /\ rc' = "OK"
    /\ UNCHANGED <<file, buf>>

FilesNext ==
    \/ \E f \in Files : Open(f)
    \/ \E f \in DOMAIN file :
          \/ Close(f)
          \/ \E i \in Blocks :
                \/ \E d \in Contents : WriteBlock(f, i, d)
                \/ ReadBlock(f, i) \/ ShortRead(f, i) \/ Alarm(f, i)
                \/ Truncate(f, i)
    \/ WriteFails
    \/ Others

FilesSpec == FilesInit /\ [][FilesNext]_filesVars

================================================================================
