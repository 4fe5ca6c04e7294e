------------------------------ MODULE QueryCache ------------------------------
(***************************************************************************)
(* The cache of query results behind the hooks of frontend-react           *)
(* (api/queries.ts), as the library @tanstack/react-query keeps it: at most*)
(* one fetch per key counts, an entry is fresh for a while, a component    *)
(* that turns to a key fetches it unless a fresh entry is there, so does a *)
(* connection that comes back, and pages ask for more fetches after they   *)
(* have changed something.                                                 *)
(*                                                                         *)
(* A fetch is answered with what the backend holds when it reads, which may*)
(* be before or after any other request takes effect.                      *)
(***************************************************************************)
CONSTANTS Keys, NoData

VARIABLES
  held,        \* key -> what the backend holds for it
  data,        \* key -> last answer, or NoData
  stale,       \* keys whose entry is not fresh
  flight       \* key -> <<>>, <<"sent">>, or <<"read", answer>>

Idle == <<>>
Sent == <<"sent">>

Init ==
  /\ data = [k \in Keys |-> NoData]
  /\ stale = {}
  /\ flight = [k \in Keys |-> Idle]

Loading(k) == data[k] = NoData /\ flight[k] # Idle      \* isLoading

\* A component turns to the key.
Observe(k) ==
  /\ flight' = IF flight[k] = Idle /\ (data[k] = NoData \/ k \in stale)
               THEN [flight EXCEPT ![k] = Sent] ELSE flight
  /\ UNCHANGED <<data, stale>>

\* A fetch that has an entry to fall back on is replaced, the first one of a
\* key is joined.
Again(k) == IF Loading(k) THEN flight ELSE [flight EXCEPT ![k] = Sent]

Refetch(k) == flight' = Again(k) /\ UNCHANGED <<data, stale>>

\* invalidateQueries: every entry is stale, the key in use is fetched again.
InvalidateAll(k) ==
  /\ stale' = {o \in Keys : data[o] # NoData}
  /\ flight' = Again(k)
  /\ UNCHANGED data

Read(k) ==
  /\ flight[k] = Sent
  /\ flight' = [flight EXCEPT ![k] = <<"read", held[k]>>]
  /\ UNCHANGED <<data, stale>>

Settle(k) ==
  /\ flight[k] # Idle /\ flight[k] # Sent
  /\ data' = [data EXCEPT ![k] = flight[k][2]]
  /\ stale' = stale \ {k}
  /\ flight' = [flight EXCEPT ![k] = Idle]

\* Both attempts failed; what was cached stays. Whether it still counts as
\* fresh depends on the version of the library.
Fail(k) ==
  /\ flight[k] # Idle
  /\ flight' = [flight EXCEPT ![k] = Idle]
  /\ stale' \in {stale, IF data[k] = NoData THEN stale ELSE stale \cup {k}}
  /\ UNCHANGED data

\* staleTime has passed.
Age(k) ==
  /\ data[k] # NoData /\ k \notin stale
  /\ stale' = stale \cup {k}
  /\ UNCHANGED <<data, flight>>

\* An entry no component has looked at for long is dropped.
Drop(k) ==
  /\ data[k] # NoData /\ flight[k] = Idle
  /\ data' = [data EXCEPT ![k] = NoData]
  /\ stale' = stale \ {k}
  /\ UNCHANGED flight

\* The connection is back after a while: an entry in use that is not fresh, or
\* missing, is fetched again (refetchOnReconnect).
Reconnect(k) ==
  /\ flight[k] = Idle /\ (data[k] = NoData \/ k \in stale)
  /\ flight' = [flight EXCEPT ![k] = Sent]
  /\ UNCHANGED <<data, stale>>

\* A fetch goes on.
Fetching(k) == Read(k) \/ Settle(k) \/ Fail(k)

\* Time passes, with one key in use. What awaits the fetch of a key goes on as
\* soon as that has ended, before the key can be fetched again.
Time(used, awaited) ==
  \/ \E k \in Keys : Age(k)
  \/ \E k \in Keys \ {used} : Drop(k)
  \/ used \notin awaited /\ Reconnect(used)
=============================================================================
