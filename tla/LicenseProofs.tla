---------------------------- MODULE LicenseProofs ----------------------------
(* The license page, for any number of requests and changes: the plaintext  *)
(* of a new API key, and what the page shows once every answer is in.       *)
EXTENDS License, TLAPS

-----------------------------------------------------------------------------
(* The inductive invariant.                                                 *)

LicPages == [loading : BOOLEAN, error : BOOLEAN, saving : BOOLEAN, plain : Nat]
LicVersions == [Tables -> Nat]
LicRequests == [n : Nat, kind : LicKinds \cup {"load"}, since : LicVersions, dirty : BOOLEAN]

LicShape ==
    /\ licServer \in LicVersions /\ licPage \in LicPages
    /\ licReqs \subseteq LicRequests /\ licSent \in Nat
    /\ licDoubt \in [stale : BOOLEAN, lost : BOOLEAN]

Creates(reqs) == {r \in reqs : r.kind = "create"}

\* Unless two keys were created at once, one at most is, and while it is, the
\* page owes nothing; what it owes is the plaintext it holds, and it owes that
\* no more once its body is there.
OwedInv ==
    /\ ~licDoubt.lost => \A r, s \in Creates(licReqs) : r = s
    /\ ~licDoubt.lost /\ Creates(licReqs) # {} => licUnseen = {}
    /\ ~licDoubt.lost => licUnseen \subseteq {licPage.plain}
    /\ ~licDoubt.lost /\ LicVisible(licPage) => licPage.plain \notin licUnseen

LicInv == LicShape /\ OwedInv

-----------------------------------------------------------------------------
(* Lemmas.                                                                  *)

LEMMA LicOutdatedIs ==
    ASSUME NEW reqs \in SUBSET LicRequests
    PROVE  /\ Outdated(reqs) \subseteq LicRequests
           /\ Creates(Outdated(reqs)) # {} => Creates(reqs) # {}
           /\ (\A r, s \in Creates(reqs) : r = s)
                  => \A r, s \in Creates(Outdated(reqs)) : r = s
  <1>1. ASSUME NEW r \in LicRequests
        PROVE  /\ [r EXCEPT !.dirty = TRUE] \in LicRequests
               /\ [r EXCEPT !.dirty = TRUE].kind = r.kind
    <2>1. [r EXCEPT !.dirty = TRUE].kind = r.kind
      BY DEF LicRequests
    <2>2. [r EXCEPT !.dirty = TRUE] \in LicRequests
      BY DEF LicRequests
    <2>3. QED
      BY <2>1, <2>2
  <1>2. ASSUME NEW s \in Outdated(reqs)
        PROVE  \E r \in reqs : s \in LicRequests /\ s.kind = r.kind /\ s = [r EXCEPT !.dirty = TRUE]
    <2>1. PICK r \in reqs : s = [r EXCEPT !.dirty = TRUE]
      BY DEF Outdated
    <2>2. QED
      BY <2>1, <1>1
  <1>3. Outdated(reqs) \subseteq LicRequests
    BY <1>2
  <1>4. ASSUME NEW s \in Creates(Outdated(reqs))
        PROVE  \E r \in Creates(reqs) : s = [r EXCEPT !.dirty = TRUE]
    BY <1>2 DEF Creates
  <1>5. QED
    BY <1>3, <1>4

LEMMA NextVersionIs ==
    ASSUME NEW kind, NEW v \in Nat
    PROVE  NextVersion(kind, v) \in Nat
  BY DEF NextVersion

LEMMA ServerAfterIs ==
    ASSUME LicShape, NEW kind \in LicKinds
    PROVE  ServerAfter(kind) \in LicVersions
  <1>1. TableOf(kind) \in Tables
    BY DEF TableOf, Tables
  <1>2. QED
    BY <1>1, NextVersionIs DEF LicShape, ServerAfter, LicVersions

LEMMA LicRequestIs ==
    ASSUME LicShape, NEW kind \in LicKinds \cup {"load"}, NEW server \in LicVersions
    PROVE  /\ LicRequest(kind, server) \in LicRequests
           /\ LicRequest(kind, server).kind = kind
  BY DEF LicShape, LicRequest, LicRequests

\* What load() does to the invariant, when it is called with some of the
\* requests in flight and a page that owes no more than it holds.
LEMMA LicLoadKeeps ==
    ASSUME LicInv,
           NEW server \in LicVersions, NEW reqs \in SUBSET licReqs, NEW page \in LicPages, NEW told,
           licServer' = server, licDoubt' = licDoubt,
           LoadLicense(server, reqs, page, told),
           ~licDoubt.lost => licUnseen \cup told \subseteq {page.plain},
           ~licDoubt.lost /\ Creates(reqs) # {} => told = {}
    PROVE  LicInv'
  <1> DEFINE load == LicRequest("load", server)
  <1>1. load \in LicRequests /\ load.kind = "load"
    BY LicRequestIs DEF LicInv
  <1>2. reqs \in SUBSET LicRequests
    BY DEF LicInv, LicShape
  <1>3. licReqs' = Outdated(reqs) \cup {load}
    BY DEF LoadLicense
  <1> HIDE DEF load
  <1>4. LicShape'
    <2>1. licPage' \in LicPages
      BY DEF LoadLicense, SetLicPage, LicPages
    <2>2. licReqs' \subseteq LicRequests
      BY <1>1, <1>2, <1>3, LicOutdatedIs
    <2>3. licSent' \in Nat
      BY DEF LoadLicense, LicInv, LicShape
    <2>4. QED
      BY <2>1, <2>2, <2>3 DEF LicInv, LicShape
  <1>5. Creates(licReqs') = Creates(Outdated(reqs))
    BY <1>1, <1>3 DEF Creates
  <1>6. Creates(reqs) \subseteq Creates(licReqs)
    BY DEF Creates
  <1>7. /\ licPage'.plain = page.plain
        /\ ~LicVisible(licPage')
        /\ licUnseen' = licUnseen \cup told
    BY DEF LoadLicense, SetLicPage, LicVisible, LicPages
  <1>8. OwedInv'
    BY <1>2, <1>5, <1>6, <1>7, LicOutdatedIs DEF LicInv, OwedInv
  <1>9. QED
    BY <1>4, <1>8 DEF LicInv

-----------------------------------------------------------------------------
(* Every step keeps the invariant.                                          *)

LEMMA InitLicense == LicenseInit => LicInv
  BY DEF LicenseInit, LicInv, LicShape, OwedInv, LicVersions, LicRequests, LicPages, Creates, LicKinds,
         LicVisible

LEMMA LicRetryKeeps == LicInv /\ RetryLicense => LicInv'
  <1> SUFFICES ASSUME LicInv, RetryLicense
               PROVE  LicInv'
    OBVIOUS
  <1>1. licServer \in LicVersions /\ licPage \in LicPages
    BY DEF LicInv, LicShape
  <1>2. QED
    BY <1>1, LicLoadKeeps DEF RetryLicense, LicInv, OwedInv

LEMMA LicClickKeeps ==
    ASSUME LicInv, NEW kind \in LicKinds, ClickLicense(kind)
    PROVE  LicInv'
  <1> DEFINE req == LicRequest(kind, licServer)
  <1>1. req \in LicRequests /\ req.kind = kind
    BY LicRequestIs DEF LicInv, LicShape
  <1>2. licReqs' = licReqs \cup {req}
    BY DEF ClickLicense
  <1> HIDE DEF req
  <1>3. LicShape'
    <2>1. licPage' \in LicPages
      BY DEF ClickLicense, LicInv, LicShape, LicPages
    <2>2. licReqs' \subseteq LicRequests
      BY <1>1, <1>2 DEF LicInv, LicShape
    <2>3. licDoubt' \in [stale : BOOLEAN, lost : BOOLEAN]
      BY DEF ClickLicense, LicInv, LicShape
    <2>4. QED
      BY <2>1, <2>2, <2>3 DEF ClickLicense, LicInv, LicShape
  <1>4. LicVisible(licPage) /\ (~licDoubt.lost => licPage.plain \notin licUnseen)
    BY DEF ClickLicense, CanClick, LicInv, OwedInv
  <1>5. CASE kind # "create"
    <2>1. Creates(licReqs') = Creates(licReqs)
      BY <1>1, <1>2, <1>5 DEF Creates
    <2>2. licPage'.plain = licPage.plain /\ licUnseen' = licUnseen
      BY <1>5 DEF ClickLicense, LicInv, LicShape, LicPages
    <2>3. licDoubt'.lost = licDoubt.lost
      BY <1>5 DEF ClickLicense, LicInv, LicShape
    <2>4. OwedInv'
      BY <1>4, <2>1, <2>2, <2>3 DEF LicInv, OwedInv
    <2>5. QED
      BY <1>3, <2>4 DEF LicInv
  <1>6. CASE kind = "create"
    <2>1. licDoubt'.lost <=> licDoubt.lost \/ Creates(licReqs) # {}
      BY <1>6 DEF ClickLicense, LicInv, LicShape, Creates
    <2>2. ~licDoubt.lost => licUnseen = {}
      BY <1>4 DEF LicInv, OwedInv
    <2>3. Creates(licReqs') = Creates(licReqs) \cup {req}
      BY <1>1, <1>2, <1>6 DEF Creates
    <2>4. licPage'.plain = 0 /\ licUnseen' = licUnseen
      BY <1>6 DEF ClickLicense, LicInv, LicShape, LicPages
    <2>5. OwedInv'
      BY <2>1, <2>2, <2>3, <2>4 DEF LicInv, OwedInv
    <2>6. QED
      BY <1>3, <2>5 DEF LicInv
  <1>7. QED
    BY <1>5, <1>6

LEMMA LicAnswerKeeps ==
    ASSUME LicInv, NEW r \in licReqs, AnswerLicLoad(r) \/ LicLoadFails(r)
    PROVE  LicInv'
  <1>1. /\ licReqs' \subseteq licReqs
        /\ licPage' \in LicPages /\ licPage'.plain = licPage.plain
        /\ licUnseen' = licUnseen \ (IF LicVisible(licPage') THEN {licPage.plain} ELSE {})
        /\ licDoubt' \in [stale : BOOLEAN, lost : BOOLEAN] /\ licDoubt'.lost = licDoubt.lost
        /\ UNCHANGED <<licServer, licSent>>
    <2>1. r.dirty \in BOOLEAN
      BY DEF LicInv, LicShape, LicRequests
    <2>2. QED
      BY <2>1 DEF AnswerLicLoad, LicLoadFails, LicOthers, SetLicPage, LicInv, LicShape, LicPages
  <1>2. Creates(licReqs') \subseteq Creates(licReqs)
    BY <1>1 DEF Creates
  <1>3. QED
    BY <1>1, <1>2 DEF LicInv, LicShape, OwedInv

LEMMA LicChangedKeeps ==
    ASSUME LicInv, NEW r \in licReqs, LicChanged(r)
    PROVE  LicInv'
  <1> DEFINE after == ServerAfter(r.kind)
  <1>1. r \in LicRequests /\ r.kind \in LicKinds /\ after \in LicVersions
    BY ServerAfterIs DEF LicInv, LicShape, LicRequests, LicChanged
  <1>2. after.keys \in Nat
    BY <1>1 DEF LicVersions, Tables
  <1> HIDE DEF after
  <1>3. LicOthers(r) \in SUBSET licReqs
    BY DEF LicOthers
  <1>4. CASE r.kind = "paste"
    <2>1. /\ licServer' = after
          /\ licPage' = [licPage EXCEPT !.saving = FALSE]
          /\ licReqs' = Outdated(LicOthers(r))
          /\ UNCHANGED <<licSent, licUnseen, licDoubt>>
      BY <1>4 DEF LicChanged, Reloads, after
    <2>2. /\ licPage' \in LicPages /\ licPage'.plain = licPage.plain
          /\ LicVisible(licPage') <=> LicVisible(licPage)
      BY <2>1 DEF LicInv, LicShape, LicPages, LicVisible
    <2>3. LicOthers(r) \in SUBSET LicRequests
      BY <1>3 DEF LicInv, LicShape
    <2>4. Creates(LicOthers(r)) \subseteq Creates(licReqs)
      BY <1>3 DEF Creates
    <2>5. LicShape'
      BY <1>1, <2>1, <2>2, <2>3, LicOutdatedIs DEF LicInv, LicShape
    <2>6. OwedInv'
      BY <2>1, <2>2, <2>3, <2>4, LicOutdatedIs DEF LicInv, OwedInv
    <2>7. QED
      BY <2>5, <2>6 DEF LicInv
  <1>5. CASE r.kind \notin {"paste", "create"}
    <2>1. /\ licServer' = after /\ licDoubt' = licDoubt
          /\ LoadLicense(after, LicOthers(r), licPage, {})
      BY <1>5 DEF LicChanged, Reloads, AfterChange, after
    <2>2. licPage \in LicPages
      BY DEF LicInv, LicShape
    <2>3. ~licDoubt.lost => licUnseen \cup {} \subseteq {licPage.plain}
      BY DEF LicInv, OwedInv
    <2>4. QED
      BY <1>1, <1>3, <2>1, <2>2, <2>3, LicLoadKeeps
  <1>6. CASE r.kind = "create"
    <2> DEFINE page == [licPage EXCEPT !.plain = after.keys]
    <2>1. /\ licServer' = after /\ licDoubt' = licDoubt
          /\ LoadLicense(after, LicOthers(r), page, {after.keys})
      BY <1>6 DEF LicChanged, Reloads, AfterChange, after
    <2>2. page \in LicPages /\ page.plain = after.keys
      BY <1>2 DEF LicInv, LicShape, LicPages
    <2> HIDE DEF page
    <2>3. r \in Creates(licReqs)
      BY <1>6 DEF Creates
    <2>4. ~licDoubt.lost => licUnseen \cup {after.keys} \subseteq {page.plain}
      BY <2>2, <2>3 DEF LicInv, OwedInv
    <2>5. ~licDoubt.lost => Creates(LicOthers(r)) = {}
      BY <2>3 DEF LicInv, OwedInv, LicOthers, Creates
    <2>6. QED
      BY <1>1, <1>3, <2>1, <2>2, <2>4, <2>5, LicLoadKeeps
  <1>7. QED
    BY <1>4, <1>5, <1>6

LEMMA LicNotChangedKeeps ==
    ASSUME LicInv, NEW r \in licReqs, LicNotChanged(r)
    PROVE  LicInv'
  <1>1. r \in LicRequests /\ r.kind \in LicKinds
    BY DEF LicInv, LicShape, LicRequests, LicNotChanged
  <1>2. PICK stored \in BOOLEAN :
            /\ licServer' = IF stored THEN ServerAfter(r.kind) ELSE licServer
            /\ licPage' = IF r.kind = "paste" THEN [licPage EXCEPT !.saving = FALSE] ELSE licPage
            /\ licReqs' = IF stored THEN Outdated(LicOthers(r)) ELSE LicOthers(r)
            /\ licDoubt' = [licDoubt EXCEPT !.stale = @ \/ stored]
            /\ UNCHANGED <<licSent, licUnseen>>
    BY DEF LicNotChanged
  <1>3. LicOthers(r) \in SUBSET LicRequests /\ Creates(LicOthers(r)) \subseteq Creates(licReqs)
    BY DEF LicInv, LicShape, LicOthers, Creates
  <1>4. /\ licPage' \in LicPages /\ licPage'.plain = licPage.plain
        /\ LicVisible(licPage') <=> LicVisible(licPage)
    BY <1>2 DEF LicInv, LicShape, LicPages, LicVisible
  <1>5. licDoubt' \in [stale : BOOLEAN, lost : BOOLEAN] /\ licDoubt'.lost = licDoubt.lost
    BY <1>2 DEF LicInv, LicShape
  <1>6. licServer' \in LicVersions
    BY <1>1, <1>2, ServerAfterIs DEF LicInv, LicShape
  <1>7. /\ licReqs' \subseteq LicRequests
        /\ Creates(licReqs') # {} => Creates(licReqs) # {}
        /\ (\A q, s \in Creates(licReqs) : q = s) => \A q, s \in Creates(licReqs') : q = s
    BY <1>2, <1>3, LicOutdatedIs
  <1>8. QED
    BY <1>2, <1>4, <1>5, <1>6, <1>7 DEF LicInv, LicShape, OwedInv

LEMMA NextKeepsLicense == LicInv /\ [LicenseNext]_licVars => LicInv'
  <1> SUFFICES ASSUME LicInv, [LicenseNext]_licVars
               PROVE  LicInv'
    OBVIOUS
  <1>1. CASE RetryLicense
    BY <1>1, LicRetryKeeps
  <1>2. CASE \E kind \in LicKinds : ClickLicense(kind)
    BY <1>2, LicClickKeeps
  <1>3. CASE \E r \in licReqs : AnswerLicLoad(r) \/ LicLoadFails(r)
    BY <1>3, LicAnswerKeeps
  <1>4. CASE \E r \in licReqs : LicChanged(r)
    BY <1>4, LicChangedKeeps
  <1>5. CASE \E r \in licReqs : LicNotChanged(r)
    BY <1>5, LicNotChangedKeeps
  <1>6. CASE UNCHANGED licVars
    BY <1>6 DEF licVars, LicInv, LicShape, OwedInv, LicVisible, Creates
  <1>7. QED
    BY <1>1, <1>2, <1>3, <1>4, <1>5, <1>6 DEF LicenseNext

-----------------------------------------------------------------------------
(* What the page shows when nothing is under way.                           *)

Loads(reqs) == {r \in reqs : r.kind = "load"}

\* A load that is not out of date was sent for the tables the server has.
LicFreshInv ==
    /\ licShown \in LicVersions
    /\ \A r \in Loads(licReqs) : r.dirty \/ r.since = licServer
    /\ Loads(licReqs) # {} \/ licDoubt.stale \/ licShown = licServer

LEMMA OutdatedAreDirty ==
    ASSUME NEW reqs \in SUBSET LicRequests
    PROVE  /\ \A r \in Outdated(reqs) : r.dirty
           /\ Loads(reqs) # {} => Loads(Outdated(reqs)) # {}
  <1>1. ASSUME NEW r \in reqs
        PROVE  /\ [r EXCEPT !.dirty = TRUE].dirty
               /\ [r EXCEPT !.dirty = TRUE].kind = r.kind
    BY DEF LicRequests
  <1>2. \A r \in Outdated(reqs) : r.dirty
    BY <1>1 DEF Outdated
  <1>3. ASSUME NEW r \in Loads(reqs)
        PROVE  [r EXCEPT !.dirty = TRUE] \in Loads(Outdated(reqs))
    BY <1>1 DEF Loads, Outdated
  <1>4. QED
    BY <1>2, <1>3

\* load() asks for the tables as they are after the step.
LEMMA LoadIsFresh ==
    ASSUME LicInv, LicFreshInv, NEW server \in LicVersions, NEW reqs \in SUBSET licReqs,
           NEW page, NEW told, licServer' = server, licShown' = licShown,
           LoadLicense(server, reqs, page, told)
    PROVE  LicFreshInv'
  <1> DEFINE load == LicRequest("load", server)
  <1>1. load.kind = "load" /\ load.since = server
    BY DEF LicRequest
  <1>2. licReqs' = Outdated(reqs) \cup {load}
    BY DEF LoadLicense
  <1> HIDE DEF load
  <1>3. \A r \in Outdated(reqs) : r.dirty
    BY OutdatedAreDirty DEF LicInv, LicShape
  <1>4. QED
    BY <1>1, <1>2, <1>3 DEF LicFreshInv, Loads

LEMMA InitLicenseFresh == LicenseInit => LicFreshInv
  BY DEF LicenseInit, LicFreshInv, LicVersions, Loads

LEMMA NextKeepsLicenseFresh ==
    ASSUME LicInv, LicFreshInv, [LicenseNext]_licVars
    PROVE  LicFreshInv'
  <1>1. /\ licServer \in LicVersions /\ licReqs \subseteq LicRequests /\ licShown \in LicVersions
        /\ licDoubt \in [stale : BOOLEAN, lost : BOOLEAN]
    BY DEF LicInv, LicShape, LicFreshInv
  <1>2. CASE RetryLicense
    BY <1>1, <1>2, LoadIsFresh DEF RetryLicense
  <1>3. ASSUME NEW kind \in LicKinds, ClickLicense(kind)
        PROVE  LicFreshInv'
    <2>1. PICK req : req = LicRequest(kind, licServer)
      OBVIOUS
    <2>2. /\ licReqs' = licReqs \cup {req} /\ UNCHANGED <<licServer, licShown>>
          /\ req.kind = kind /\ kind # "load"
      BY <1>3, <2>1 DEF ClickLicense, LicRequest, LicKinds
    <2>3. licDoubt'.stale = licDoubt.stale
      BY <1>1, <1>3 DEF ClickLicense
    <2>4. Loads(licReqs') = Loads(licReqs)
      BY <2>2 DEF Loads
    <2>5. QED
      BY <2>2, <2>3, <2>4 DEF LicFreshInv
  <1>4. ASSUME NEW r \in licReqs, AnswerLicLoad(r)
        PROVE  LicFreshInv'
    <2>1. /\ r.kind = "load" /\ licReqs' = licReqs \ {r} /\ licServer' = licServer
          /\ licDoubt'.stale = r.dirty
      BY <1>1, <1>4 DEF AnswerLicLoad, LicOthers
    <2>2. /\ licShown' \in LicVersions
          /\ \A t \in Tables : r.since[t] <= licShown'[t] /\ licShown'[t] <= licServer[t]
      BY <1>4 DEF AnswerLicLoad, LicVersions
    <2>3. CASE r.dirty
      BY <2>1, <2>2, <2>3 DEF LicFreshInv, Loads
    <2>4. CASE ~r.dirty
      <3>1. r.since = licServer
        BY <2>1, <2>4 DEF LicFreshInv, Loads
      <3>2. \A t \in Tables : licShown'[t] = licServer[t]
        BY <1>1, <2>2, <3>1 DEF LicVersions
      <3>3. licShown' = licServer
        BY <1>1, <2>2, <3>2 DEF LicVersions
      <3>4. QED
        BY <2>1, <2>2, <3>3 DEF LicFreshInv, Loads
    <2>5. QED
      BY <2>3, <2>4
  <1>5. ASSUME NEW r \in licReqs, LicLoadFails(r)
        PROVE  LicFreshInv'
    <2>1. /\ licReqs' = licReqs \ {r} /\ licDoubt'.stale /\ UNCHANGED <<licServer, licShown>>
      BY <1>1, <1>5 DEF LicLoadFails, LicOthers
    <2>2. QED
      BY <2>1 DEF LicFreshInv, Loads
  <1>6. ASSUME NEW r \in licReqs, LicChanged(r)
        PROVE  LicFreshInv'
    <2>1. /\ r.kind \in LicKinds /\ ServerAfter(r.kind) \in LicVersions
          /\ licServer' = ServerAfter(r.kind) /\ LicOthers(r) \in SUBSET licReqs
      BY <1>1, <1>6, ServerAfterIs DEF LicChanged, LicInv, LicOthers, LicRequests
    <2>2. CASE r.kind # "paste"
      BY <1>6, <2>1, <2>2, LoadIsFresh DEF LicChanged, Reloads
    <2>3. CASE r.kind = "paste"
      <3>1. /\ licShown' = [licShown EXCEPT !.license = licServer'.license]
            /\ licReqs' = Outdated(LicOthers(r)) /\ licDoubt' = licDoubt
        BY <1>6, <2>1, <2>3 DEF LicChanged, Reloads
      <3>2. licServer' = [licServer EXCEPT !.license = licServer'.license]
        <4>1. TableOf(r.kind) = "license" /\ "license" \in Tables
          BY <2>3 DEF TableOf, Tables
        <4>2. licServer' = [licServer EXCEPT !["license"] = NextVersion(r.kind, licServer["license"])]
          BY <2>1, <4>1 DEF ServerAfter
        <4>3. QED
          BY <1>1, <4>1, <4>2 DEF LicVersions
      <3>3. licServer'.license \in Nat
        BY <2>1 DEF LicVersions, Tables
      <3>4. licShown' \in LicVersions /\ (licShown = licServer => licShown' = licServer')
        BY <1>1, <3>1, <3>2, <3>3 DEF LicVersions
      <3>5. LicOthers(r) \in SUBSET LicRequests
        BY <1>1, <2>1
      <3>6. /\ \A s \in Loads(licReqs') : s.dirty
            /\ Loads(licReqs) # {} => Loads(licReqs') # {}
        <4>1. Loads(LicOthers(r)) = Loads(licReqs)
          BY <2>3 DEF Loads, LicOthers
        <4>2. QED
          BY <3>1, <3>5, <4>1, OutdatedAreDirty DEF Loads
      <3>7. QED
        BY <3>1, <3>4, <3>6 DEF LicFreshInv
    <2>4. QED
      BY <2>2, <2>3
  <1>7. ASSUME NEW r \in licReqs, LicNotChanged(r)
        PROVE  LicFreshInv'
    <2>1. PICK stored \in BOOLEAN :
            /\ licServer' = IF stored THEN ServerAfter(r.kind) ELSE licServer
            /\ licReqs' = IF stored THEN Outdated(LicOthers(r)) ELSE LicOthers(r)
            /\ licDoubt' = [licDoubt EXCEPT !.stale = @ \/ stored]
            /\ r.kind # "load" /\ UNCHANGED licShown
      BY <1>7 DEF LicNotChanged
    <2>2. LicOthers(r) \in SUBSET LicRequests /\ Loads(LicOthers(r)) = Loads(licReqs)
      BY <1>1, <2>1 DEF LicOthers, Loads
    <2>3. CASE stored
      <3>1. licReqs' = Outdated(LicOthers(r)) /\ licDoubt'.stale
        BY <1>1, <2>1, <2>3
      <3>2. \A s \in Loads(licReqs') : s.dirty
        BY <2>2, <3>1, OutdatedAreDirty DEF Loads
      <3>3. QED
        BY <1>1, <2>1, <3>1, <3>2 DEF LicFreshInv
    <2>4. CASE ~stored
      <3>1. /\ licReqs' = LicOthers(r) /\ licServer' = licServer
            /\ licDoubt'.stale = licDoubt.stale
        BY <1>1, <2>1, <2>4
      <3>2. Loads(licReqs') = Loads(licReqs)
        BY <2>2, <3>1
      <3>3. QED
        BY <2>1, <3>1, <3>2 DEF LicFreshInv
    <2>5. QED
      BY <2>3, <2>4
  <1>8. CASE UNCHANGED licVars
    BY <1>8 DEF licVars, LicFreshInv, Loads
  <1>9. QED
    BY <1>2, <1>3, <1>4, <1>5, <1>6, <1>7, <1>8 DEF LicenseNext

-----------------------------------------------------------------------------
\* What the page holds and owes, in every reachable state.
THEOREM LicenseInvariant == LicenseSpec => []LicInv
  BY InitLicense, NextKeepsLicense, PTL DEF LicenseSpec

\* LicensePage.tsx, onCreateKey: however many requests are in flight and
\* whichever loads fail, the one answer that tells a key's plaintext is kept
\* until the page has shown it, unless a second key was asked for meanwhile.
THEOREM PlaintextIsShown == LicenseSpec => []KeyIsSeen
  <1>1. LicInv => KeyIsSeen
    BY DEF LicInv, LicShape, OwedInv, KeyIsSeen
  <1>2. QED
    BY <1>1, LicenseInvariant, PTL

\* LicensePage.tsx, load: with every answer in, the page shows the license, the
\* companies and the keys the server has, but for the exceptions of LicenseFresh.
THEOREM LicensePageIsFresh == LicenseSpec => []LicenseFresh
  <1>1. LicInv /\ LicFreshInv /\ [LicenseNext]_licVars => LicFreshInv'
    BY NextKeepsLicenseFresh
  <1>2. LicFreshInv => LicenseFresh
    BY DEF LicFreshInv, LicenseFresh, Loads
  <1>3. QED
    BY <1>1, <1>2, InitLicenseFresh, LicenseInvariant, PTL DEF LicenseSpec

-----------------------------------------------------------------------------
(* The types of the page, with the bounds of its counters.                  *)

LEMMA ChangeFits ==
    ASSUME LicenseTypeOK, NEW kind, CanChange(kind)
    PROVE  ServerAfter(kind) \in [Tables -> 0 .. LicMaxChanges]
  <1> DEFINE t == TableOf(kind)
             v == NextVersion(kind, licServer[t])
  <1>1. t \in Tables
    BY DEF TableOf, Tables
  <1>2. licServer[t] \in 0 .. LicMaxChanges /\ licServer \in [Tables -> 0 .. LicMaxChanges]
    BY <1>1 DEF LicenseTypeOK
  <1>3. v \in Nat
    BY <1>2, NextVersionIs
  <1>4. ServerAfter(kind) = [licServer EXCEPT ![t] = v]
    BY DEF ServerAfter
  <1> HIDE DEF t, v
  <1>5. v <= LicMaxChanges
    BY <1>1, <1>2, <1>4 DEF CanChange, t
  <1>6. QED
    BY <1>1, <1>2, <1>3, <1>4, <1>5, LicenseAssumption

LEMMA LicenseTypes ==
    ASSUME LicInv, LicenseTypeOK, [LicenseNext]_licVars
    PROVE  LicenseTypeOK'
  <1> DEFINE Versions == [Tables -> 0 .. LicMaxChanges]
             Pages == [loading : BOOLEAN, error : BOOLEAN, saving : BOOLEAN,
                       plain : 0 .. LicMaxChanges]
             Doubts == [stale : BOOLEAN, lost : BOOLEAN]
             Fits == /\ licServer' \in Versions /\ licShown' \in Versions
                     /\ licPage' \in Pages /\ licSent' \in 1 .. LicMaxSends
                     /\ licDoubt' \in Doubts
  <1>1. /\ licServer \in Versions /\ licShown \in Versions /\ licPage \in Pages
        /\ licSent \in 1 .. LicMaxSends /\ licDoubt \in Doubts
        /\ LicMaxSends \in Nat /\ LicMaxChanges \in Nat
    BY LicenseAssumption DEF LicenseTypeOK
  <1>2. SUFFICES Fits
    BY DEF LicenseTypeOK
  <1>3. licSent < LicMaxSends /\ licSent' = licSent + 1 => licSent' \in 1 .. LicMaxSends
    BY <1>1
  <1>4. CASE RetryLicense
    BY <1>1, <1>3, <1>4 DEF RetryLicense, LoadLicense, SetLicPage
  <1>5. ASSUME NEW kind \in LicKinds, ClickLicense(kind)
        PROVE  Fits
    <2>1. licPage' \in Pages
      <3>1. 0 \in 0 .. LicMaxChanges
        BY <1>1
      <3>2. \/ licPage' = [licPage EXCEPT !.saving = TRUE]
            \/ licPage' = [licPage EXCEPT !.plain = 0]
            \/ licPage' = licPage
        BY <1>5 DEF ClickLicense
      <3>3. QED
        BY <1>1, <3>1, <3>2
    <2>2. licDoubt' \in Doubts
      BY <1>1, <1>5 DEF ClickLicense
    <2>3. QED
      BY <1>1, <1>3, <1>5, <2>1, <2>2 DEF ClickLicense
  <1>6. ASSUME NEW r \in licReqs, AnswerLicLoad(r)
        PROVE  Fits
    <2>1. PICK v \in [Tables -> 0 .. LicMaxChanges + 1] :
              licShown' = v /\ \A t \in Tables : v[t] <= licServer[t]
      BY <1>6 DEF AnswerLicLoad
    <2>2. \A t \in Tables : v[t] \in 0 .. LicMaxChanges
      BY <1>1, <2>1, LicenseAssumption
    <2>3. licShown' \in Versions
      BY <2>1, <2>2
    <2>4. r.dirty \in BOOLEAN
      BY DEF LicInv, LicShape, LicRequests
    <2>5. QED
      BY <1>1, <1>6, <2>3, <2>4 DEF AnswerLicLoad, SetLicPage
  <1>7. ASSUME NEW r \in licReqs, LicLoadFails(r)
        PROVE  Fits
    BY <1>1, <1>7 DEF LicLoadFails, SetLicPage
  <1>8. ASSUME NEW r \in licReqs, LicChanged(r)
        PROVE  Fits
    <2>1. ServerAfter(r.kind) \in Versions
      BY <1>8, ChangeFits DEF LicChanged
    <2> DEFINE after == ServerAfter(r.kind)
    <2>2. after.keys \in 0 .. LicMaxChanges /\ after.license \in 0 .. LicMaxChanges
      <3>1. "keys" \in Tables /\ "license" \in Tables
        BY DEF Tables
      <3> HIDE DEF after
      <3>2. after \in Versions
        BY <2>1 DEF after
      <3>3. QED
        BY <3>1, <3>2
    <2>3. AfterChange(r.kind) \in Pages
      BY <1>1, <2>2 DEF AfterChange
    <2>4. CASE Reloads(r.kind)
      <3>1. PICK page, told : page \in Pages /\ LoadLicense(after, LicOthers(r), page, told)
        BY <1>8, <2>3, <2>4 DEF LicChanged
      <3>2. licPage' \in Pages
        BY <3>1 DEF LoadLicense, SetLicPage
      <3>3. QED
        BY <1>1, <1>3, <1>8, <2>1, <2>4, <3>1, <3>2 DEF LicChanged, LoadLicense
    <2>5. CASE ~Reloads(r.kind)
      BY <1>1, <1>8, <2>1, <2>2, <2>5 DEF LicChanged
    <2>6. QED
      BY <2>4, <2>5
  <1>9. ASSUME NEW r \in licReqs, LicNotChanged(r)
        PROVE  Fits
    <2>1. licServer' \in Versions
      BY <1>1, <1>9, ChangeFits DEF LicNotChanged
    <2>2. licPage' \in Pages /\ licDoubt' \in Doubts
      BY <1>1, <1>9 DEF LicNotChanged
    <2>3. QED
      BY <1>1, <1>9, <2>1, <2>2 DEF LicNotChanged
  <1>10. CASE UNCHANGED licVars
    BY <1>1, <1>10 DEF licVars
  <1>11. QED
    BY <1>4, <1>5, <1>6, <1>7, <1>8, <1>9, <1>10 DEF LicenseNext
=============================================================================
