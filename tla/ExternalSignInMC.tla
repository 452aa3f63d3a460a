-------------------------- MODULE ExternalSignInMC --------------------------
(***************************************************************************)
(* A small instance of ExternalSignIn: one upstream subject, what its      *)
(* tickets say, and three custom scopes.                                   *)
(***************************************************************************)
EXTENDS ExternalSignIn, TLC

CONSTANTS s1, e1

ScopesHere ==
    {[name |-> "plan", claims |-> {"level"}, adminOnly |-> FALSE, boolean |-> NoClaim],
     [name |-> "ops", claims |-> {}, adminOnly |-> TRUE, boolean |-> NoClaim],
     [name |-> "credits.admin", claims |-> {}, adminOnly |-> TRUE, boolean |-> "credits_admin"]}

Says(email, verified, attrs, username) ==
    [subject |-> s1, email |-> email, verified |-> verified, attrs |-> attrs,
     username |-> username]
AssertionsHere == {Says(e1, TRUE, {"level", "email_verified"}, TRUE), Says(Nil, TRUE, {}, FALSE)}

Interchangeable ==
    {f @@ g @@ h @@ k @@ u : f \in Permutations(Workers), g \in Permutations(Tickets),
                             h \in Permutations(States), k \in Permutations(Browsers),
                             u \in Permutations(Users)}
=============================================================================
