------------------------- MODULE MCServerControl -------------------------
\* One helper for what two reloads do to each other, two for the order they are
\* asked in.
EXTENDS ServerControl, TLC
SomeDoes == ("old" :> <<"use", "/both", "/old">>) @@ ("new" :> <<"/both", "use", "/new">>)
Plan(helpers, asks) == [helpers |-> helpers, asks |-> asks]
SomePlans == {Plan({1}, <<"new", "old", "none">>), Plan({1}, <<"new", "metrics", "close">>),
              Plan({1, 2}, <<"new", "metrics", "none">>), Plan({1, 2}, <<"new", "close", "none">>),
              Plan({1, 2}, <<"metrics", "close", "none">>)}
=============================================================================
