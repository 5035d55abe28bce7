------------------------------ MODULE MCSignIn ------------------------------
(***************************************************************************)
(* Small instances of who may come in. Accounts, the two sign-ins and the  *)
(* life of sessions share no variable here, so a behaviour runs one of     *)
(* them and leaves the others as they begin. They share their model        *)
(* values, so one set of permutations is a symmetry of all.                *)
(***************************************************************************)
EXTENDS Accounts, LocalSignIn, SsoSignIn, SessionRows, TLC

VARIABLE part

MCClaims == {[amr |-> <<"pwd">>, acr |-> "none"], [amr |-> <<"pwd", "sms">>, acr |-> "none"]}

MCInit ==
  /\ part \in {"accounts", "local", "sso", "sessions"}
  /\ Init /\ LocalInit /\ SsoInit /\ RowsInit
  /\ part # "accounts" => \A u \in Users : users[u] # NoAccount /\ users[u].active
                                             /\ users[u].roles = Roles

MCNext ==
  \/ part = "accounts" /\ Next /\ UNCHANGED <<part, localVars, ssoVars, rowsVars>>
  \/ part = "local" /\ LocalNext /\ UNCHANGED <<part, vars, ssoVars, rowsVars>>
  \/ part = "sso" /\ SsoNext /\ UNCHANGED <<part, vars, localVars, rowsVars>>
  \/ part = "sessions" /\ RowsNext /\ UNCHANGED <<part, vars, localVars, ssoVars>>

MCSpec == MCInit /\ [][MCNext]_<<part, vars, localVars, ssoVars, rowsVars>>

Symmetry == Permutations(Users) \union Permutations(Sessions)
              \union Permutations(Requests) \union Permutations(Logins)
              \union Permutations(SessionIds)
=============================================================================
