------------------------------- MODULE MCCommands -------------------------------
(* Instances of Commands: two containers without a prefix, whose names have a   *)
(* word in common; the name of one is its identifier, that of the other is not. *)
EXTENDS Commands, TLC

CONSTANTS web, web_db

MCNames == {web, web_db}
MCName == (web :> <<"web">>) @@ (web_db :> <<"web-db">>)
MCSlug == (web :> <<"web">>) @@ (web_db :> <<"web", "db">>)
MCPrefix == <<>>
MCHost == <<"my", "host">>
MCEnvs == {{"change"}, {"fail"}, {"publish"}}

================================================================================
