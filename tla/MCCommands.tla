----------------------------- MODULE MCCommands -----------------------------
(***************************************************************************)
(* An instance of Commands for TLC: one declaration of each type, and one  *)
(* of each way to be invalid.                                              *)
(***************************************************************************)
EXTENDS Commands, TLC

CONSTANTS k1, k2, malformedKey, yes, infinite, on, null

Plain(k, t) == [key |-> k, type |-> t, min |-> 0, max |-> 0, step |-> Unset,
                options |-> {}, metric |-> Blank]

MCNumbers == 0..3
MCDeclarations ==
  LET range == [Plain(k1, "range") EXCEPT !.min = 1, !.max = 2]
  IN  {Plain(k1, "onoff"), Plain(k2, "trigger"), Plain(malformedKey, "onoff"),
       range, [range EXCEPT !.step = 1], [range EXCEPT !.step = 0], [range EXCEPT !.max = 1],
       [range EXCEPT !.max = infinite],
       [Plain(k2, "enum") EXCEPT !.options = {on}], [Plain(k2, "enum") EXCEPT !.options = {Blank}],
       [Plain(k1, "sensor") EXCEPT !.metric = on], Plain(k2, "sensor")}
=============================================================================
