----------------------------- MODULE MCOptions -----------------------------
(***************************************************************************)
(* Command lines of up to three options of every kind, with ports that are *)
(* numbers, too large, or no numbers, and command lines that name up to    *)
(* one file more than the table holds.                                     *)
(***************************************************************************)
EXTENDS Options

MCNames == 1 .. 4

MCChoices ==
    {<<"g", <<1>>>>, <<"g", <<65535>>>>, <<"g", <<65536>>>>, <<"i", <<1>>>>, <<"i", <<>>>>, <<"t", "first">>, <<"t", "second">>,
     <<"d", Own>>, <<"d", 1>>}
      \cup ({"r", "m", "s", "p", "h", "?"} \X {0})

MCCommandLines ==
    UNION {[1 .. n -> MCChoices] : n \in 0 .. 3}
      \cup UNION {[1 .. n -> {"d"} \X Names] : n \in 0 .. MAX_FILES_NUMBER + 1}
============================================================================
