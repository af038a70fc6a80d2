------------------------------ MODULE MCIntake ------------------------------
(* Two seeders, a job, three releases of the taxonomy and three of the roles. *)
EXTENDS Intake

\* The first release, one that adds an attribute to it, a second version that
\* drops one.
MCTaxonomyReleases ==
  { [version |-> "v1", categories |-> <<[key |-> "m", attributes |-> <<"a">>]>>],
    [version |-> "v1", categories |-> <<[key |-> "m", attributes |-> <<"a", "b">>]>>],
    [version |-> "v2", categories |-> <<[key |-> "m", attributes |-> <<"b">>]>>] }

\* The first release; one that gives its role two links more, to scopes that
\* are there; one that adds a scope, and a role.
MCIamReleases ==
  { [scopes |-> <<"r", "w", "x">>, roles |-> <<[name |-> "reader", scopes |-> {"r"}]>>],
    [scopes |-> <<"r", "w", "x">>, roles |-> <<[name |-> "reader", scopes |-> {"r", "w", "x"}]>>],
    [scopes |-> <<"r", "w", "x", "y">>,
     roles  |-> <<[name |-> "reader", scopes |-> {"r", "y"}], [name |-> "editor", scopes |-> {"w"}]>>] }

E(k, c) == [object |-> TRUE, key |-> k, confidence |-> c, valid |-> TRUE, legible |-> TRUE]

Invalid(e)    == [e EXCEPT !.valid = FALSE]
Unreadable(e) == [Invalid(e) EXCEPT !.legible = FALSE]
NoObject      == [E("x", "low") EXCEPT !.object = FALSE]

\* Every way to route an entry, alone or beside another; keys of the first
\* release, of the one that adds b, of the second version, and of none.
MCAnswers ==
  { <<>>, <<E("a", "low"), E("b", "doubtful")>>,
    <<E("a", "high"), E("b", "high")>>, <<E("b", "high"), E("x", "low")>>,
    <<NoObject, E("a", "doubtful")>>, <<Invalid(E("a", "high")), E("a", "high")>>,
    <<Unreadable(E("a", "high")), E("b", "high")>> }
=============================================================================
