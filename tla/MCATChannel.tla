----------------------------- MODULE MCATChannel -----------------------------
(* Commands for ATChannel's runs. *)
EXTENDS ATRefinement

Cmd(t, p, w) == [type |-> t, prefix |-> p, wanted |-> w]

\* One command of each kind, and one whose caller passes a NULL pp_outResponse.
MCCommands ==
    {Cmd("SINGLELINE", "+X:", TRUE), Cmd("MULTILINE", "", TRUE),
     Cmd("NUMERIC", NoPrefix, TRUE), Cmd("NO_RESULT", NoPrefix, FALSE)}

\* A command that any line answers.
AnyLines == {Cmd("MULTILINE", "", TRUE)}

OneCommand == {Cmd("SINGLELINE", "+X:", TRUE)}
=============================================================================
