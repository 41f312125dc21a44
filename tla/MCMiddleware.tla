---------------------------- MODULE MCMiddleware ----------------------------
(***************************************************************************)
(* Instances of Middleware for TLC.                                        *)
(***************************************************************************)
EXTENDS Middleware, TLC

CONSTANTS r1, r2, r3, main, tenant, value, k

Plain(s, c) == [store |-> s, key |-> k, custom |-> c, noStore |-> FALSE, cached |-> TRUE,
                coalesced |-> TRUE]

\* The default store only.
DefaultShapes == {Plain(main, FALSE)}

\* One default store, one custom store with an address, one without, requests
\* that declare no-store, requests through a middleware without singleflight,
\* and requests that are left alone.
AllShapes ==
  {Plain(main, FALSE), Plain(tenant, TRUE), Plain(value, TRUE),
   [Plain(main, FALSE) EXCEPT !.noStore = TRUE],
   [Plain(main, FALSE) EXCEPT !.coalesced = FALSE],
   [Plain(main, FALSE) EXCEPT !.cached = FALSE]}

\* Every shape, with handlers of every kind; then timers, and origin data that
\* changes while flights are under way.
SomeDeployments ==
  {[shapes |-> AllShapes, kinds |-> {"good", "private", "tooLarge", "panic"},
    timers |-> FALSE, changes |-> 0],
   [shapes |-> DefaultShapes, kinds |-> {"good", "tooLarge", "panic"},
    timers |-> TRUE, changes |-> 1]}

Symmetry == Permutations(Requests)
=============================================================================
