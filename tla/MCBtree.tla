-------------------------------- MODULE MCBtree -------------------------------
EXTENDS Btree

MCReaders == {"r"}

MCScene(table, n, rows, cursors, writeN) ==
    [intkey |-> table, keys |-> 1 .. n, rows |-> rows, cursors |-> cursors, writes |-> writeN]

\* Rows that fill a quarter, a half or all of a page, or a page and another one.
Quarter == [sz |-> 1, ov |-> 0]
Half == [sz |-> 2, ov |-> 0]
Full == [sz |-> 4, ov |-> 0]
Long == [sz |-> 4, ov |-> 1]

\* Scans of a table and of an index while another cursor writes; rows replaced
\* by longer and shorter ones; a table three pages deep; an index whose keys
\* move up and down.
MCScenes ==
    {MCScene(TRUE, 4, {Half}, {"w", "r"}, 4),
     MCScene(FALSE, 5, {Quarter}, {"w", "r"}, 5),
     MCScene(TRUE, 3, {Half, Long}, {"w"}, 4),
     MCScene(TRUE, 6, {Full}, {"w"}, 6),
     MCScene(FALSE, 7, {Quarter}, {"w"}, 7)}

\* For the disagreements with the code's comments.
MCAppend == {MCScene(TRUE, 4, {Half}, {"w"}, 4)}
MCScan == {MCScene(TRUE, 4, {Half}, {"w", "r"}, 6)}

================================================================================
