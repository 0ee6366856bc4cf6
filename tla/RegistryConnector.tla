--------------------------- MODULE RegistryConnector ---------------------------
(***************************************************************************)
(* The CODEF connector: registered rights of a case, fetched from the      *)
(* court registry through a paid service.                                  *)
(*                                                                         *)
(* Concurrent callers of one case share one fetch, whose result stays in   *)
(* the cache until it is invalidated.  Every lookup of a fetch, the first  *)
(* and each continuation of an ambiguous address, takes an access token    *)
(* from a token cache of its own that all fetches share.                   *)
(***************************************************************************)
EXTENDS Integers, Sequences, SequencesExt, FiniteSets

CONSTANTS
  Key,             \* cases: court office and case number
  Caller,          \* concurrent requests for registered rights
  NoRights,        \* not cached, or no answer
  Documents,       \* what the registry holds for a case, version after version
  MaxRounds,       \* continuations of one lookup: three in the code
  Life, Margin,    \* of an access token: lifetime, safety margin
  MaxTime, MaxRefusals, MaxDrops    \* bounds

ASSUME RegistryAssumption ==
  /\ MaxRounds \in Nat /\ Life \in Nat /\ Margin \in Nat /\ Life > 2 * Margin
  /\ {MaxTime, MaxRefusals, MaxDrops} \subseteq Nat
  /\ Documents \in Seq(Seq([column : BOOLEAN, purpose : STRING, received : STRING]))

VARIABLES
  store,           \* the cache: what each case was answered, or NoRights
  fetch,           \* the fetch in flight for each case
  caller,          \* what each request waits for, and what it got
  token,           \* the cached access token: when it is taken to expire, and dies
  now,             \* the clock, in units of the safety margin
  version,         \* which document the registry holds for each case
  asOf,            \* history: the version when a case was last dropped at rest
  begun, refused, dropped    \* history: fetches begun, failed, invalidations

registryVars == <<store, fetch, caller, token, now, version, asOf, begun, refused, dropped>>

-----------------------------------------------------------------------------
(* The mapper: rows of a registry document to rights.                      *)

\* Keywords in the order they are tried, each with the type it stands for.
Purposes ==
  << <<"root_mortgage", "MORTGAGE">>, <<"mortgage", "MORTGAGE">>,
     <<"provisional_seizure", "PROVISIONAL_SEIZURE">>, <<"seizure", "SEIZURE">>,
     <<"collateral_provisional_registration", "COLLATERAL_PROVISIONAL_REGISTRATION">>,
     <<"auction_commencement", "AUCTION_COMMENCEMENT">>, <<"leasehold", "LEASEHOLD">>,
     <<"superficies", "SUPERFICIES">>, <<"easement", "EASEMENT">>,
     <<"provisional_registration", "PROVISIONAL_REGISTRATION">>,
     <<"provisional_disposition", "PROVISIONAL_DISPOSITION">> >>

\* The keywords that a purpose written in a document contains.
Within(purpose) ==
  {purpose} \cup CASE purpose = "root_mortgage" -> {"mortgage"}
                   [] purpose = "provisional_seizure" -> {"seizure"}
                   [] purpose = "collateral_provisional_registration" ->
                        {"provisional_registration"}
                   [] OTHER -> {}

\* Faulty: the general word wins.
ResolveLast(purpose) ==
  LET match == SelectLastInSeq(Purposes, LAMBDA p : p[1] \in Within(purpose)) IN
  IF match = 0 THEN "none" ELSE Purposes[match][2]

\* The first keyword that the purpose contains.
ResolvePurpose(purpose) ==
  LET match == SelectInSeq(Purposes, LAMBDA p : p[1] \in Within(purpose)) IN
  IF match = 0 THEN "none" ELSE Purposes[match][2]

\* A table without the column of purposes holds no rights; a header row or an
\* absent cell reads as no purpose.
Column(row) == IF row.column THEN row.purpose ELSE "none"
ReceivedDate(row) == IF row.received = "readable" THEN "date" ELSE "none"

InScope(row) == ResolvePurpose(Column(row)) # "none"
\* Rows of ownership and the like are skipped; a right without a date fails all.
KeepRight(rights, row) ==
  IF InScope(row) THEN Append(rights, ResolvePurpose(Column(row))) ELSE rights
MapRows(rows) ==
  IF \E i \in DOMAIN rows : InScope(rows[i]) /\ ReceivedDate(rows[i]) = "none"
  THEN NoRights ELSE FoldLeft(KeepRight, << >>, rows)

\* What a request is answered: of which document, and the rights it maps to.
Mapped(v) == [of |-> v, rights |-> MapRows(Documents[v])]

ASSUME AnswersAssumption ==
  Documents # << >> /\ \A v \in DOMAIN Documents : Mapped(v) # NoRights

-----------------------------------------------------------------------------

Total(count) == MapThenSumSet(LAMBDA k : count[k], Key)

NoFetch == [at |-> "none", round |-> 0, since |-> 0, dies |-> 0]
Resting == [at |-> "idle", key |-> NoRights, billed |-> FALSE, got |-> NoRights]

RegistryInit ==
  /\ store = [k \in Key |-> NoRights] /\ fetch = [k \in Key |-> NoFetch]
  /\ caller = [c \in Caller |-> Resting]
  /\ token = [expires |-> 0, dies |-> 0] /\ now = 0
  /\ version = [k \in Key |-> 1] /\ asOf = [k \in Key |-> 1]
  /\ begun = [k \in Key |-> 0] /\ refused = [k \in Key |-> 0]
  /\ dropped = [k \in Key |-> 0]

\* Faulty: a token is trusted for as long as it lives.
ExpiresWithoutMargin(asked) == asked + Life

\* getAccessToken reads the clock before it asks for a token.
ExpiresAt(asked) == asked + Life - Margin

\* lookup: with the cached token if it has not expired, else with a new one.
Lookup(f) ==
  IF token.expires > now
  THEN [f EXCEPT !.at = "asking", !.since = now, !.dies = token.dies]
  ELSE [f EXCEPT !.at = "authorizing", !.since = now]

\* Faulty: a request does not look for a fetch in flight.
AlwaysFetches(c, k) ==
  /\ caller[c].at = "idle" /\ store[k] = NoRights
  /\ fetch' = [fetch EXCEPT ![k] = Lookup(NoFetch)]
  /\ begun' = [begun EXCEPT ![k] = @ + 1]
  /\ caller' = [caller EXCEPT ![c] = [Resting EXCEPT !.at = "waiting", !.key = k,
                                                     !.billed = TRUE]]
  /\ UNCHANGED <<store, token, now, version, asOf, refused, dropped>>

\* getOrFetch: a cached answer, a fetch in flight to join, or a new fetch that
\* is billed to this caller.
GetRegisteredRights(c, k) ==
  /\ caller[c].at = "idle"
  /\ \/ /\ store[k] # NoRights
        /\ caller' = [caller EXCEPT ![c] = [Resting EXCEPT !.at = "served", !.key = k,
                                                           !.got = store[k]]]
        /\ UNCHANGED <<fetch, begun>>
     \/ /\ store[k] = NoRights /\ fetch[k] # NoFetch
        /\ caller' = [caller EXCEPT ![c] = [Resting EXCEPT !.at = "waiting", !.key = k]]
        /\ UNCHANGED <<fetch, begun>>
     \/ /\ store[k] = NoRights /\ fetch[k] = NoFetch
        /\ fetch' = [fetch EXCEPT ![k] = Lookup(NoFetch)]
        /\ begun' = [begun EXCEPT ![k] = @ + 1]
        /\ caller' = [caller EXCEPT ![c] = [Resting EXCEPT !.at = "waiting", !.key = k,
                                                           !.billed = TRUE]]
  /\ UNCHANGED <<store, token, now, version, asOf, refused, dropped>>

\* A new token is issued on the way; the last answer is the one that is kept.
Authorized(k) ==
  /\ fetch[k].at = "authorizing"
  /\ \E issued \in fetch[k].since .. now :
       /\ token' = [expires |-> ExpiresAt(fetch[k].since), dies |-> issued + Life]
       /\ fetch' = [fetch EXCEPT ![k] = [@ EXCEPT !.at = "asking", !.since = now,
                                                  !.dies = issued + Life]]
  /\ UNCHANGED <<store, caller, now, version, asOf, begun, refused, dropped>>

\* The fetch is over: all who wait for it get its answer or its failure.
Settled(k, answer) ==
  /\ fetch' = [fetch EXCEPT ![k] = NoFetch]
  /\ caller' = [c \in Caller |->
       IF caller[c].at = "waiting" /\ caller[c].key = k
       THEN [caller[c] EXCEPT !.at = "served", !.got = answer] ELSE caller[c]]

\* Network, server or business error, at the token or at the lookup; or an
\* address with no candidate or several.
Refused(k) ==
  /\ fetch[k].at \in {"authorizing", "asking"} /\ Total(refused) < MaxRefusals
  /\ Settled(k, NoRights)
  /\ refused' = [refused EXCEPT ![k] = @ + 1]
  /\ UNCHANGED <<store, token, now, version, asOf, begun, dropped>>

\* One candidate: the lookup goes on with its number.  After the last round the
\* continuation itself is returned, which the mapper cannot read.
Continued(k) ==
  /\ fetch[k].at = "asking"
  /\ IF fetch[k].round < MaxRounds
       THEN /\ fetch' = [fetch EXCEPT ![k] = Lookup([fetch[k] EXCEPT !.round = @ + 1])]
            /\ UNCHANGED <<caller, refused>>
       ELSE /\ Settled(k, NoRights) /\ Total(refused) < MaxRefusals
            /\ refused' = [refused EXCEPT ![k] = @ + 1]
  /\ UNCHANGED <<store, token, now, version, asOf, begun, dropped>>

\* The document: mapped and cached, or a failure that is not.
Answered(k) ==
  /\ fetch[k].at = "asking"
  /\ LET answer == Mapped(version[k]) IN
     IF answer.rights = NoRights
       THEN /\ Settled(k, NoRights) /\ Total(refused) < MaxRefusals
            /\ refused' = [refused EXCEPT ![k] = @ + 1] /\ UNCHANGED store
       ELSE /\ Settled(k, answer) /\ store' = [store EXCEPT ![k] = answer]
            /\ UNCHANGED refused
  /\ UNCHANGED <<token, now, version, asOf, begun, dropped>>

\* Only the cached answer is dropped: a fetch in flight goes on.
Invalidate(k) ==
  /\ Total(dropped) < MaxDrops /\ dropped' = [dropped EXCEPT ![k] = @ + 1]
  /\ store' = [store EXCEPT ![k] = NoRights]
  /\ asOf' = IF fetch[k] = NoFetch THEN [asOf EXCEPT ![k] = version[k]] ELSE asOf
  /\ UNCHANGED <<fetch, caller, token, now, version, begun, refused>>

RegistryChanges(k) ==
  /\ version[k] < Len(Documents) /\ version' = [version EXCEPT ![k] = @ + 1]
  /\ UNCHANGED <<store, fetch, caller, token, now, asOf, begun, refused, dropped>>

CallerDone(c) ==
  /\ caller[c].at = "served" /\ caller' = [caller EXCEPT ![c] = Resting]
  /\ UNCHANGED <<store, fetch, token, now, version, asOf, begun, refused, dropped>>

\* No exchange with CODEF takes longer than the margin.
TimeMoves ==
  /\ now < MaxTime /\ \A k \in Key : fetch[k] # NoFetch => now - fetch[k].since < Margin
  /\ now' = now + 1
  /\ UNCHANGED <<store, fetch, caller, token, version, asOf, begun, refused, dropped>>

RegistryNext ==
  \/ \E c \in Caller, k \in Key : GetRegisteredRights(c, k)
  \/ \E k \in Key : Authorized(k) \/ Refused(k) \/ Continued(k) \/ Answered(k)
                    \/ Invalidate(k) \/ RegistryChanges(k)
  \/ \E c \in Caller : CallerDone(c)
  \/ TimeMoves

-----------------------------------------------------------------------------

\* A registry answer costs money: whatever callers overlap, fail or invalidate,
\* a case is fetched once, and once more for each failure and each invalidation,
\* and a fetch in flight is billed to exactly one of those who wait for it.
PaidOnce ==
  \A k \in Key :
    /\ begun[k] <= 1 + refused[k] + dropped[k]
    /\ fetch[k] # NoFetch =>
         Cardinality({c \in Caller : caller[c].at = "waiting" /\ caller[c].key = k
                                     /\ caller[c].billed}) = 1

\* The token that a lookup carries is alive when it reaches CODEF, in every
\* round of a lookup and whichever fetch stored the token.
TokenOutlivesLookup ==
  \A k \in Key : fetch[k].at = "asking" => now < fetch[k].dies

\* What is cached or answered is the mapped document, each right of its own
\* type, and never older than the last invalidation that met no fetch.
RightsOfDocument ==
  LET Faithful(k, answer) ==
        LET rows == Documents[answer.of]
            scoped == {i \in DOMAIN rows : InScope(rows[i])}
            Place(i) == Cardinality({j \in scoped : j <= i})
        IN  /\ answer.of >= asOf[k] /\ Len(answer.rights) = Cardinality(scoped)
            /\ \A i \in scoped :
                 /\ rows[i].received = "readable"
                 /\ \A p \in ToSet(Purposes) :
                      p[1] = rows[i].purpose => answer.rights[Place(i)] = p[2]
  IN \A k \in Key : store[k] # NoRights => Faithful(k, store[k])

=============================================================================
