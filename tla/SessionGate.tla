---------------------------- MODULE SessionGate ----------------------------
(***************************************************************************)
(* Who may use the session routes of the operator API: bearer tokens of    *)
(* auth.rs and the check that every terminal and chat handler begins with  *)
(* (load_scoped_instance in operator_api.rs).                              *)
(*                                                                         *)
(* A login, by wallet signature or by access token, issues a token for one *)
(* instance and its owner; it stops resolving when it expires.  The        *)
(* operator's own token is refused by every session route, so it is left   *)
(* out.  Records of instances are never removed and never change owner.    *)
(***************************************************************************)

CONSTANTS
    Id, Owner,   \* instances with a record, wallet addresses
    OwnerOf,     \* the owner in each record
    Token,       \* places for tokens that are valid at the same time
    NoClaims     \* the token does not resolve

Claims == [scope : Id, owner : Owner]

ASSUME GateAssumption ==
    /\ OwnerOf \in [Id -> Owner]
    /\ NoClaims \notin Claims

VARIABLE token   \* what resolve_bearer answers for each token

GateTypeOK == token \in [Token -> Claims \cup {NoClaims}]

GateInit == token = [k \in Token |-> NoClaims]

Login(k, i) ==
    /\ token[k] = NoClaims
    /\ token' = [token EXCEPT ![k] = [scope |-> i, owner |-> OwnerOf[i]]]

Expire(k) ==
    /\ token[k] # NoClaims
    /\ token' = [token EXCEPT ![k] = NoClaims]

\* load_scoped_instance succeeds.
LoadScoped(k, i) ==
    /\ token[k] # NoClaims
    /\ token[k].scope = i
    /\ token[k].owner = OwnerOf[i]

\* Mutant: the session's scope is not compared with the instance of the URL.
MatchesOwnerOnly(session, i, o) == session.owner = o

\* The check that a handler makes of a session it has looked up.
Matches(session, i, o) == session.scope = i /\ session.owner = o

=============================================================================
