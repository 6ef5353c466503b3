--------------------------- MODULE MCAuthentication ---------------------------
(* su, sudo and ssh, a stub with three parameters besides its name, up to   *)
(* two additional variables and three prompts.                              *)
EXTENDS Authentication

AllMethods == {"su", "sudo", "ssh"}
OnlySsh == {"ssh"}
NamePlusThree == <<"kdesu_stub", "display", "command", "user">>
UpToTwoVariables == {<<>>, <<"variable">>, <<"variable", "other">>}
===============================================================================
