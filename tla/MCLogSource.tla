---------------------------- MODULE MCLogSource ----------------------------
(***************************************************************************)
(* LogSource with small alphabets of lines; two instants make a second.    *)
(***************************************************************************)
EXTENDS LogSource

\* One second with every text at two instants, a plain line in the next second.
KeyRecords ==
    [time : {1}, text : {"plain", "end"}]
        \cup [time : {2}, text : {"begin", "cut"}]
        \cup [time : {3}, text : {"plain"}]

\* One line that repeats itself, another in the next second.
FewRecords == [time : {1, 3}, text : {"plain"}]
=============================================================================
