------------------------------- MODULE MCApi --------------------------------
(***************************************************************************)
(* One caller who may take any route, with any of the accounts a persona or  *)
(* a grant can give it, and an administrator whose deletions and             *)
(* revocations fall between its steps.                                       *)
(***************************************************************************)
EXTENDS Api

MCTenants == {1, 2}
MCCallers == {"caller", "operator"}
MCSubjects == {"user", "root"}
MCSubject == [q \in MCCallers |-> IF q = "caller" THEN "user" ELSE "root"]

MCPersona ==
    [s \in MCSubjects |->
        IF s = "root" THEN {{<<"service_provider_admin", Global>>}}
        ELSE {{}, {<<"campaign_manager", 1>>}, {<<"tenant_admin", 1>>},
              {<<"service_provider_admin", Global>>}}]

MCStarts ==
    LET Cookies(acct) == [s \in MCSubjects |-> IF s = "root" THEN {<<"service_provider_admin", Global>>}
                                              ELSE acct]
    IN  {<<Cookies(acct), {}>> : acct \in MCPersona["user"] \cup {None}}
        \cup {<<Cookies({}), {<<"user", "tenant_viewer", 1>>}>>,
              <<Cookies({}), {<<"user", "tenant_editor", 1>>, <<"user", "tenant_viewer", 2>>}>>}

MCGrantable == {"tenant_editor", "service_provider_admin"}

MCMayCall ==
    [q \in MCCallers |->
        IF q = "caller" THEN Routes
        ELSE {deleteExecution, deleteProject, revokeTenantRole}]

MCSlots == [q \in MCCallers |-> IF q = "caller" THEN {1, 2, 3, Bad} ELSE {1}]

MCFaulty == {"caller"}
MCExpired == {2}
=============================================================================
