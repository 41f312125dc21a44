---------------------------- MODULE Singleflight ----------------------------
(***************************************************************************)
(* golang.org/x/sync/singleflight as TwoLevelStore and the response        *)
(* middleware use it: one map from keys to the call that is in flight for  *)
(* the key.  The library is not part of the repository, so these operators *)
(* are external.  A call is identified with the goroutine that leads it; a *)
(* goroutine leads one call at a time.                                     *)
(***************************************************************************)

CONSTANT NoCall     \* the key has no call in the map

\* Group.Do finds a call to wait for.
InFlight(m, k) == m[k] # NoCall

\* Group.Do registers p as the leader of a new call.
Registered(m, k, p) == [m EXCEPT ![k] = p]

\* Group.Forget: whoever the call belongs to, the key is taken out of the map.
\* It neither cancels the call nor releases the waiters it already has.
Forgotten(m, k) == [m EXCEPT ![k] = NoCall]

\* The end of doCall: the entry goes only if it is still this call's.
Finished(m, k, p) == IF m[k] = p THEN Forgotten(m, k) ELSE m
=============================================================================
