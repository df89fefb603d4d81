---------------------------- MODULE PageCacheProofs ----------------------------
(***************************************************************************)
(* Proofs of the safety properties of PageCache, for every set of requests *)
(* and of versions of the page.                                            *)
(***************************************************************************)
EXTENDS PageCache, TLAPS

Leading == {"parsing", "parsed", "ending", "forgetting"}

(* What a request holds at each place *)
HoldsOK ==
    \A r \in Requests :
        /\ pc[r] \in {"idle", "arrived", "slow", "buffered", "waiting", "parsing"} =>
               ents[r] = None
        /\ pc[r] \in {"parsed", "fast", "responding"} => ents[r] \in Versions
        /\ pc[r] = "idle" => buf[r] = None
        /\ pc[r] \in Leading \cup {"buffered", "waiting", "responding"} =>
               buf[r] \in Versions

TypeInv == TypeOK /\ HoldsOK

-------------------------------------------------------------------------------
(* Types *)

(* A new server has an empty cache and no request *)
LEMMA TypeInvInit == Init => TypeInv
<1> SUFFICES ASSUME Init PROVE TypeInv
  OBVIOUS
<1> USE DEF Init
<1>1. TypeOK
  <2>1. pc \in [Requests -> States] /\ buf \in [Requests -> Versions \cup {None}]
    BY DEF States
  <2>2. ents \in [Requests -> Versions \cup {None}]
    OBVIOUS
  <2>3. edits \in 0..MaxEdits /\ purges \in 0..MaxPurges
    BY PageAssumption
  <2> QED BY <2>1, <2>2, <2>3 DEF TypeOK
<1>2. HoldsOK
  BY DEF HoldsOK, Leading
<1> QED BY <1>1, <1>2 DEF TypeInv

(* Finish leaves a slot that holds nothing *)
LEMMA FinishOK ==
    ASSUME TypeInv, NEW r \in Requests, Finish(r)
    PROVE  /\ pc' \in [Requests -> States]
           /\ buf' \in [Requests -> Versions \cup {None}]
           /\ ents' \in [Requests -> Versions \cup {None}]
           /\ late' \subseteq Requests
           /\ HoldsOK'
BY DEF TypeInv, TypeOK, HoldsOK, Finish, States, Leading

(* Every action keeps the types and what requests hold *)
LEMMA TypeInvStep == TypeInv /\ [Next]_vars => TypeInv'
<1> SUFFICES ASSUME TypeInv, [Next]_vars PROVE TypeInv'
  OBVIOUS
<1> USE PageAssumption
<1>1. ASSUME NEW v \in Versions, Edit(v) PROVE TypeInv'
  BY <1>1 DEF Edit, TypeInv, TypeOK, HoldsOK, Leading
<1>2. ASSUME NEW r \in Requests, Arrive(r) PROVE TypeInv'
  <2>1. TypeOK'
    BY <1>2 DEF Arrive, Goto, TypeInv, TypeOK, history, States
  <2>2. HoldsOK'
    BY <1>2 DEF Arrive, Goto, TypeInv, TypeOK, HoldsOK, history, States, Leading
  <2> QED BY <2>1, <2>2 DEF TypeInv
<1>3. ASSUME NEW r \in Requests, Purge(r) PROVE TypeInv'
  <2>1. purges' \in 0..MaxPurges /\ edits' \in 0..MaxEdits
    BY <1>3 DEF Purge, TypeInv, TypeOK
  <2>2. late' \subseteq Requests
    BY <1>3 DEF Purge, InProgress
  <2>3. quiet' \in BOOLEAN /\ edited' \in BOOLEAN
    BY <1>3 DEF Purge
  <2>4. pc' \in [Requests -> States]
    BY <1>3 DEF Purge, Goto, TypeInv, TypeOK, States
  <2>5. HoldsOK'
    BY <1>3 DEF Purge, Goto, TypeInv, TypeOK, HoldsOK, Leading
  <2> QED BY <1>3, <2>1, <2>2, <2>3, <2>4, <2>5 DEF Purge, TypeInv, TypeOK
<1>4. ASSUME NEW r \in Requests, ESITagsByRequest(r) PROVE TypeInv'
  <2>1. TypeOK'
    BY <1>4 DEF ESITagsByRequest, Goto, TypeInv, TypeOK, history, States, Tagged
  <2>2. HoldsOK'
    BY <1>4 DEF ESITagsByRequest, Goto, TypeInv, TypeOK, HoldsOK, history, States, Leading, Tagged
  <2> QED BY <2>1, <2>2 DEF TypeInv
<1>5. ASSUME NEW r \in Requests, Render(r) PROVE TypeInv'
  <2>1. CASE pc[r] = "fast"
    BY <1>5, <2>1 DEF Render, Goto, TypeInv, TypeOK, HoldsOK, history, States
  <2>2. CASE pc[r] = "slow"
    BY <1>5, <2>2 DEF Render, Goto, TypeInv, TypeOK, HoldsOK, history, States
  <2> QED BY <1>5, <2>1, <2>2 DEF Render
<1>6. ASSUME NEW r \in Requests, EndUninjected(r) PROVE TypeInv'
  BY <1>6, FinishOK DEF EndUninjected, TypeInv, TypeOK
<1>7. ASSUME NEW r \in Requests, Lead(r) PROVE TypeInv'
  BY <1>7 DEF Lead, Goto, TypeInv, TypeOK, HoldsOK, history, States
<1>8. ASSUME NEW r \in Requests, Join(r) PROVE TypeInv'
  BY <1>8 DEF Join, Goto, TypeInv, TypeOK, HoldsOK, history, States
<1>9. ASSUME NEW r \in Requests, JoinEnded(r) PROVE TypeInv'
  BY <1>9 DEF JoinEnded, Goto, TypeInv, TypeOK, HoldsOK, history, States
<1>10. ASSUME NEW r \in Requests, JoinFailed(r) PROVE TypeInv'
  BY <1>10, FinishOK DEF JoinFailed, TypeInv, TypeOK
<1>11. ASSUME NEW r \in Requests, Parse(r) PROVE TypeInv'
  <2>1. TypeOK'
    BY <1>11 DEF Parse, Goto, TypeInv, TypeOK, history, States
  <2>2. HoldsOK'
    BY <1>11 DEF Parse, Goto, TypeInv, TypeOK, HoldsOK, history, States, Leading
  <2> QED BY <2>1, <2>2 DEF TypeInv
<1>12. ASSUME NEW r \in Requests, UpsertESITags(r) PROVE TypeInv'
  <2>1. TypeOK'
    BY <1>12 DEF UpsertESITags, Goto, TypeInv, TypeOK, history, States
  <2>2. HoldsOK'
    BY <1>12 DEF UpsertESITags, Goto, TypeInv, TypeOK, HoldsOK, history, States, Leading
  <2> QED BY <2>1, <2>2 DEF TypeInv
<1>13. ASSUME NEW r \in Requests, FlightEnds(r) PROVE TypeInv'
  BY <1>13 DEF FlightEnds, TypeInv, TypeOK, HoldsOK, States, Leading
<1>14. ASSUME NEW r \in Requests, ForgetFlight(r) PROVE TypeInv'
  <2>1. CASE ents[r] = None
    BY <1>14, <2>1, FinishOK DEF ForgetFlight, TypeInv, TypeOK
  <2>2. CASE ents[r] # None
    <3>1. UNCHANGED <<buf, ents, late>> /\ pc' = [pc EXCEPT ![r] = "responding"]
      BY <1>14, <2>2 DEF ForgetFlight, Goto
    <3>2. ents[r] \in Versions
      BY <2>2 DEF TypeInv, TypeOK
    <3>3. TypeOK'
      BY <1>14, <3>1 DEF ForgetFlight, TypeInv, TypeOK, States
    <3>4. HoldsOK'
      BY <1>14, <3>1, <3>2 DEF ForgetFlight, TypeInv, TypeOK, HoldsOK, States, Leading
    <3> QED BY <3>3, <3>4 DEF TypeInv
  <2> QED BY <2>1, <2>2
<1>15. ASSUME NEW r \in Requests, Respond(r) PROVE TypeInv'
  BY <1>15, FinishOK DEF Respond, TypeInv, TypeOK
<1>16. CASE UNCHANGED vars
  BY <1>16 DEF vars, history, TypeInv, TypeOK, HoldsOK, Leading
<1> QED
  BY <1>1, <1>2, <1>3, <1>4, <1>5, <1>6, <1>7, <1>8, <1>9, <1>10, <1>11, <1>12,
     <1>13, <1>14, <1>15, <1>16 DEF Next, Step

(* Every variable keeps its type, and a request holds a page and tags where *)
(* serveBuffered has them                                                  *)
THEOREM PageTypeCorrect == Spec => []TypeOK
<1>1. TypeInv => TypeOK
  BY DEF TypeInv
<1> QED BY TypeInvInit, TypeInvStep, <1>1, PTL DEF Spec

-------------------------------------------------------------------------------
(* The parse flight *)

AtMostOneLeads ==
    \A q, r \in Requests : pc[q] \in Leading /\ pc[r] \in Leading => q = r

(* The group has a call for the page exactly while a request leads it *)
FlightLed == flight # "none" <=> \E r \in Requests : pc[r] \in Leading

Led == AtMostOneLeads /\ FlightLed

(* No request leads at the start *)
LEMMA LedInit == Init => Led
BY DEF Init, Led, AtMostOneLeads, FlightLed, Leading

(* A request that does not lead keeps clear of the flight *)
LEMMA LedUnmoved ==
    ASSUME Led, TypeInv, flight' = flight,
           \A r \in Requests : pc'[r] \in Leading <=> pc[r] \in Leading
    PROVE  Led'
BY DEF Led, AtMostOneLeads, FlightLed

(* Every action keeps a flight with one leader *)
LEMMA LedStep == TypeInv /\ Led /\ [Next]_vars => Led'
<1> SUFFICES ASSUME TypeInv, Led, [Next]_vars PROVE Led'
  OBVIOUS
<1> USE PageAssumption
<1>1. ASSUME NEW v \in Versions, Edit(v) PROVE Led'
  BY <1>1, LedUnmoved DEF Edit
<1>2. ASSUME NEW r \in Requests, Arrive(r) PROVE Led'
  BY <1>2, LedUnmoved DEF Arrive, Goto, TypeInv, TypeOK, Leading
<1>3. ASSUME NEW r \in Requests, Purge(r) PROVE Led'
  BY <1>3, LedUnmoved DEF Purge, Goto, TypeInv, TypeOK, Leading
<1>4. ASSUME NEW r \in Requests, ESITagsByRequest(r) PROVE Led'
  BY <1>4, LedUnmoved DEF ESITagsByRequest, Goto, TypeInv, TypeOK, Leading
<1>5. ASSUME NEW r \in Requests, Render(r) PROVE Led'
  BY <1>5, LedUnmoved DEF Render, Goto, TypeInv, TypeOK, Leading
<1>6. ASSUME NEW r \in Requests, EndUninjected(r) PROVE Led'
  BY <1>6, LedUnmoved DEF EndUninjected, Finish, TypeInv, TypeOK, Leading
<1>7. ASSUME NEW r \in Requests, Lead(r) PROVE Led'
  <2>1. \A q \in Requests : pc'[q] \in Leading <=> q = r
    BY <1>7 DEF Lead, Goto, Led, FlightLed, TypeInv, TypeOK, Leading
  <2> QED BY <1>7, <2>1 DEF Lead, Led, AtMostOneLeads, FlightLed
<1>8. ASSUME NEW r \in Requests, Join(r) PROVE Led'
  BY <1>8, LedUnmoved DEF Join, Goto, TypeInv, TypeOK, Leading
<1>9. ASSUME NEW r \in Requests, JoinEnded(r) PROVE Led'
  BY <1>9, LedUnmoved DEF JoinEnded, Goto, TypeInv, TypeOK, Leading
<1>10. ASSUME NEW r \in Requests, JoinFailed(r) PROVE Led'
  BY <1>10, LedUnmoved DEF JoinFailed, Finish, TypeInv, TypeOK, Leading
<1>11. ASSUME NEW r \in Requests, Parse(r) PROVE Led'
  BY <1>11, LedUnmoved DEF Parse, Goto, TypeInv, TypeOK, Leading
<1>12. ASSUME NEW r \in Requests, UpsertESITags(r) PROVE Led'
  BY <1>12, LedUnmoved DEF UpsertESITags, Goto, TypeInv, TypeOK, Leading
<1>13. ASSUME NEW r \in Requests, FlightEnds(r) PROVE Led'
  <2>1. \A q \in Requests : pc'[q] \in Leading <=> pc[q] \in Leading
    BY <1>13 DEF FlightEnds, TypeInv, TypeOK, Leading
  <2>2. flight' # "none"
    BY <1>13 DEF FlightEnds, TypeInv, TypeOK
  <2>3. pc[r] \in Leading
    BY <1>13 DEF FlightEnds, Leading
  <2> QED BY <2>1, <2>2, <2>3 DEF Led, AtMostOneLeads, FlightLed
<1>14. ASSUME NEW r \in Requests, ForgetFlight(r) PROVE Led'
  <2>1. pc[r] \in Leading /\ flight' = "none"
    BY <1>14 DEF ForgetFlight, Leading
  <2>2. \A q \in Requests : q # r => pc[q] \notin Leading
    BY <2>1 DEF Led, AtMostOneLeads
  <2>3. \E s \in {"idle", "responding"} : pc' = [pc EXCEPT ![r] = s]
    BY <1>14 DEF ForgetFlight, Goto, Finish
  <2>4. \A q \in Requests : pc'[q] \notin Leading
    BY <2>2, <2>3 DEF TypeInv, TypeOK, Leading
  <2> QED BY <2>1, <2>4 DEF Led, AtMostOneLeads, FlightLed
<1>15. ASSUME NEW r \in Requests, Respond(r) PROVE Led'
  BY <1>15, LedUnmoved DEF Respond, Finish, TypeInv, TypeOK, Leading
<1>16. CASE UNCHANGED vars
  BY <1>16, LedUnmoved DEF vars
<1> QED
  BY <1>1, <1>2, <1>3, <1>4, <1>5, <1>6, <1>7, <1>8, <1>9, <1>10, <1>11, <1>12,
     <1>13, <1>14, <1>15, <1>16 DEF Next, Step

(* The group lets one request at a time parse the page *)
THEOREM ParsedByOne == Spec => []OneParse
<1>1. Led => OneParse
  BY DEF Led, AtMostOneLeads, OneParse, Leading
<1> QED BY TypeInvInit, TypeInvStep, LedInit, LedStep, <1>1, PTL DEF Spec

-------------------------------------------------------------------------------
(* Purges while no request is in progress *)

(* Since such a purge, and until the next edit, nothing but the current    *)
(* version and its tags is anywhere                                        *)
Fresh ==
    quiet /\ ~edited =>
        /\ cache \in {None, content}
        /\ flight \in {"none", "running", "failed", content}
        /\ \A r \in Requests : buf[r] \in {None, content} /\ ents[r] \in {None, content}

(* A new server holds nothing *)
LEMMA FreshInit == Init => Fresh
BY DEF Init, Fresh

(* A quiet purge finds neither a page, nor tags, nor a flight *)
LEMMA QuietEmpty ==
    ASSUME TypeInv, Led, InProgress = {}
    PROVE  /\ flight = "none"
           /\ \A r \in Requests : buf[r] = None /\ ents[r] = None
<1>1. \A r \in Requests : pc[r] = "idle"
  BY DEF InProgress
<1> QED BY <1>1 DEF TypeInv, HoldsOK, Led, FlightLed, Leading

(* Finish empties the slot of a request *)
LEMMA FreshFinish ==
    ASSUME TypeInv, Fresh, NEW r \in Requests, Finish(r),
           UNCHANGED <<content, cache, edited, quiet>>,
           flight' = flight \/ flight' = "none"
    PROVE  Fresh'
BY DEF TypeInv, TypeOK, Fresh, Finish

(* Every action keeps the page and its tags fresh *)
LEMMA FreshStep == TypeInv /\ Led /\ Fresh /\ [Next]_vars => Fresh'
<1> SUFFICES ASSUME TypeInv, Led, Fresh, [Next]_vars PROVE Fresh'
  OBVIOUS
<1> USE PageAssumption DEF TypeInv, TypeOK
<1>1. ASSUME NEW v \in Versions, Edit(v) PROVE Fresh'
  BY <1>1 DEF Edit, Fresh
<1>2. ASSUME NEW r \in Requests, Arrive(r) PROVE Fresh'
  BY <1>2 DEF Arrive, Fresh, history
<1>3. ASSUME NEW r \in Requests, Purge(r) PROVE Fresh'
  BY <1>3, QuietEmpty DEF Purge, Fresh
<1>4. ASSUME NEW r \in Requests, ESITagsByRequest(r) PROVE Fresh'
  BY <1>4 DEF ESITagsByRequest, Fresh, history
<1>5. ASSUME NEW r \in Requests, Render(r) PROVE Fresh'
  BY <1>5 DEF Render, Fresh, history
<1>6. ASSUME NEW r \in Requests, EndUninjected(r) PROVE Fresh'
  BY <1>6, FreshFinish DEF EndUninjected
<1>7. ASSUME NEW r \in Requests, Lead(r) PROVE Fresh'
  BY <1>7 DEF Lead, Fresh, history
<1>8. ASSUME NEW r \in Requests, Join(r) PROVE Fresh'
  BY <1>8 DEF Join, Fresh, history
<1>9. ASSUME NEW r \in Requests, JoinEnded(r) PROVE Fresh'
  BY <1>9 DEF JoinEnded, Fresh, history
<1>10. ASSUME NEW r \in Requests, JoinFailed(r) PROVE Fresh'
  BY <1>10, FreshFinish DEF JoinFailed
<1>11. ASSUME NEW r \in Requests, Parse(r) PROVE Fresh'
  BY <1>11 DEF Parse, Fresh, history
<1>12. ASSUME NEW r \in Requests, UpsertESITags(r) PROVE Fresh'
  BY <1>12 DEF UpsertESITags, Fresh, history
<1>13. ASSUME NEW r \in Requests, FlightEnds(r) PROVE Fresh'
  BY <1>13 DEF FlightEnds, Fresh
<1>14. ASSUME NEW r \in Requests, ForgetFlight(r) PROVE Fresh'
  <2>1. CASE ents[r] = None
    BY <1>14, <2>1, FreshFinish DEF ForgetFlight
  <2>2. CASE ents[r] # None
    BY <1>14, <2>2 DEF ForgetFlight, Fresh
  <2> QED BY <2>1, <2>2
<1>15. ASSUME NEW r \in Requests, Respond(r) PROVE Fresh'
  BY <1>15, FreshFinish DEF Respond
<1>16. CASE UNCHANGED vars
  BY <1>16 DEF vars, history, Fresh
<1> QED
  BY <1>1, <1>2, <1>3, <1>4, <1>5, <1>6, <1>7, <1>8, <1>9, <1>10, <1>11, <1>12,
     <1>13, <1>14, <1>15, <1>16 DEF Next, Step

(* After a purge while no other request was in progress, and until the     *)
(* page is edited again, every response injects the tags of its page       *)
THEOREM QuietPurge == Spec => []QuietPurgeWorks
<1>1. TypeInv /\ Fresh => QuietPurgeWorks
  <2> SUFFICES ASSUME TypeInv, Fresh, quiet /\ ~edited,
                      NEW r \in Requests, pc[r] = "responding"
               PROVE  ents[r] = buf[r]
    BY DEF QuietPurgeWorks, Fits
  <2>1. ents[r] \in Versions /\ buf[r] \in Versions
    BY DEF TypeInv, HoldsOK, Leading
  <2> QED BY <2>1, PageAssumption DEF Fresh
<1> QED BY TypeInvInit, TypeInvStep, LedInit, LedStep, FreshInit, FreshStep, <1>1,
           PTL DEF Spec
===============================================================================
