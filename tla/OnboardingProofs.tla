-------------------------- MODULE OnboardingProofs --------------------------
(***************************************************************************)
(* Theorems about module Onboarding, for every value of its constants.     *)
(***************************************************************************)
EXTENDS Onboarding, TLAPS

\* What a window holds is what the draft held at that version: the version
\* only grows, and the content never changes without it.
Reads(m) ==
    /\ m.at # "closed" => m.draft \in Invites
    /\ m.at \notin {"closed", "accepting"} =>
        /\ m.version <= version[m.draft]
        /\ m.version = version[m.draft] => m.shown = data[m.draft]

Writes(m) ==
    m.at = "writing" =>
        /\ m.target \in Invites /\ m.item \in Items
        /\ m.version <= version[m.target]
        /\ m.version = version[m.target] =>
            m.next = IF m.item \in data[m.target] THEN data[m.target] \ {m.item}
                     ELSE data[m.target] \cup {m.item}

Publishes(m) ==
    m.at \in {"publishing", "claiming"} =>
        /\ m.target \in Invites
        /\ m.version <= version[m.target]
        /\ m.version = version[m.target] => m.next = data[m.target]

Proves(m) == m.at \in {"proving", "dropping"} => m.item \in Stakes

Good(m) == Reads(m) /\ Writes(m) /\ Publishes(m) /\ Proves(m)

\* A draft comes from an accepted invitation, and begins empty.
Invited ==
    \A d \in Invites :
        /\ draft[d] # "NONE" => invite[d] = "ACCEPTED"
        /\ draft[d] = "NONE" => data[d] = {}

\* A window about to enter stake s; one that has anything to do with s.
Adding(m, s) ==
    m.item = s /\ (m.at = "proving" \/ (m.at = "writing" /\ s \in m.next))
Busy(m, s) == m.item = s /\ m.at \in {"proving", "writing", "dropping"}

\* A stake is entered once, in one draft, by one window, and nobody drops the
\* proof of a stake that is entered or may still be.
Once(s) ==
    /\ file[s] = "NEW" =>
        /\ \A d \in Invites : s \notin data[d]
        /\ \A w \in Windows : ~Busy(windows[w], s)
    /\ \A w \in Windows : Adding(windows[w], s) =>
        /\ \A d \in Invites : s \notin data[d]
        /\ \A v \in Windows : v # w => ~Busy(windows[v], s)
    /\ \A w \in Windows : (windows[w].at = "dropping" /\ windows[w].item = s) =>
        s \in unheard \/ \A d \in Invites : s \notin data[d]
    /\ \A d, e \in Invites : (s \in data[d] /\ s \in data[e]) => d = e

\* The inductive invariant.
Inv ==
    /\ TypeOK /\ Invited
    /\ \A w \in Windows : Good(windows[w])
    /\ \A s \in Stakes : Once(s)
    /\ NoLostEdit /\ PublishedAsShown /\ ProofsKept

-----------------------------------------------------------------------------
LEMMA ClosedIsGood ==
    /\ Closed \in Window
    /\ Closed.at = "closed"
<1> QED
  BY OnboardingAssumption DEF Closed, Window, Versions

LEMMA InvInit == Init => Inv
<1> SUFFICES ASSUME Init PROVE Inv
  OBVIOUS
<1> USE OnboardingAssumption
<1>1. TypeOK
  BY ClosedIsGood DEF Init, TypeOK, Versions
<1>2. Invited /\ NoLostEdit /\ PublishedAsShown /\ ProofsKept
  BY DEF Init, Invited, NoLostEdit, PublishedAsShown, ProofsKept, InProgress
<1>3. \A w \in Windows : Good(windows[w])
  BY DEF Init, Good, Reads, Writes, Publishes, Proves, Closed
<1>4. \A s \in Stakes : Once(s)
  BY DEF Init, Once, Adding, Busy, Closed
<1> QED
  BY <1>1, <1>2, <1>3, <1>4 DEF Inv

\* A step that changes only one window, to m.
LEMMA OnlyWindow ==
    ASSUME Inv, NEW w \in Windows, NEW m \in Window, Go(w, m), Good(m),
           UNCHANGED <<inviteVars, draftVars, file, traces>>,
           \A s \in Stakes :
               /\ Adding(m, s) => Adding(windows[w], s)
               /\ Busy(m, s) => (Busy(windows[w], s) \/ \E d \in Invites : s \in data[d])
               /\ (m.at = "dropping" /\ m.item = s) =>
                       (s \in unheard \/ \A d \in Invites : s \notin data[d])
    PROVE  Inv'
<1> USE DEF Inv, Go, inviteVars, draftVars, traces
<1>1. TypeOK'
  BY DEF TypeOK
<1>2. (Invited /\ NoLostEdit /\ PublishedAsShown /\ ProofsKept)'
  BY DEF Invited, NoLostEdit, PublishedAsShown, ProofsKept, InProgress
<1>3. \A v \in Windows : windows'[v] = IF v = w THEN m ELSE windows[v]
  BY DEF TypeOK
<1>4. ASSUME NEW v \in Windows PROVE Good(windows[v])'
  <2>1. CASE v = w
    BY <1>3, <2>1 DEF Good, Reads, Writes, Publishes, Proves
  <2>2. CASE v # w
    <3>1. Good(windows[v]) /\ windows'[v] = windows[v]
      BY <1>3, <2>2
    <3> QED
      BY <3>1 DEF Good, Reads, Writes, Publishes, Proves
  <2> QED
    BY <2>1, <2>2
<1>5. ASSUME NEW s \in Stakes PROVE Once(s)'
  <2>1. Once(s)
    OBVIOUS
  <2> QED
    BY <1>3, <2>1 DEF Once, Adding, Busy
<1> QED
  BY <1>1, <1>2, <1>4, <1>5

\* What Inv says of one window: its record is of the right type, and good.
LEMMA WindowOf ==
    ASSUME Inv, NEW w \in Windows
    PROVE  windows[w] \in Window /\ Good(windows[w])
<1> QED
  BY DEF Inv, TypeOK

\* The requests read, and windows open and close.
LEMMA InvReads ==
    ASSUME Inv, NEW w \in Windows,
           \/ \E i \in Invites : acceptRead(w, i)
           \/ \E d \in Invites, by \in {"page", "access"} : open(w, d, by)
           \/ \E x \in Items : change(w, x)
           \/ stakeRead(w) \/ notSaved(w)
           \/ publishRead(w) \/ publishFiles(w) \/ abort(w)
    PROVE  Inv'
<1> USE OnboardingAssumption
<1> DEFINE me == windows[w]
<1>1. me \in Window /\ Good(me) /\ TypeOK
  BY WindowOf DEF Inv
<1>2. ASSUME Close(w), UNCHANGED <<inviteVars, draftVars, file, traces>>
      PROVE  Inv'
  <2>1. Good(Closed) /\ \A s \in Stakes : ~Busy(Closed, s) /\ ~Adding(Closed, s)
    BY ClosedIsGood DEF Good, Reads, Writes, Publishes, Proves, Busy, Adding
  <2> QED
    BY <1>2, <2>1, ClosedIsGood, OnlyWindow DEF Close, Go
<1>3. ASSUME NEW i \in Invites, acceptRead(w, i) PROVE Inv'
  <2> DEFINE m == [me EXCEPT !.at = "accepting", !.draft = i, !.new = ~account]
  <2>1. m \in Window /\ m.at = "accepting" /\ m.draft = i
    BY <1>1 DEF Window, TypeOK
  <2>2. Good(m) /\ \A s \in Stakes : ~Busy(m, s) /\ ~Adding(m, s)
    BY <2>1 DEF Good, Reads, Writes, Publishes, Proves, Busy, Adding
  <2> QED
    BY <1>3, <2>1, <2>2, OnlyWindow DEF acceptRead
<1>4. ASSUME NEW d \in Invites, NEW by \in {"page", "access"}, open(w, d, by)
      PROVE  Inv'
  <2> DEFINE m == [me EXCEPT !.at = "open", !.by = by, !.draft = d,
                             !.version = version[d], !.shown = data[d]]
  <2>1. m \in Window /\ m.at = "open" /\ m.draft = d
        /\ m.version = version[d] /\ m.shown = data[d]
    BY <1>1 DEF Window, TypeOK
  <2>2. version[d] \in Nat
    BY <1>1 DEF TypeOK, Versions
  <2>3. Good(m) /\ \A s \in Stakes : ~Busy(m, s) /\ ~Adding(m, s)
    BY <2>1, <2>2 DEF Good, Reads, Writes, Publishes, Proves, Busy, Adding
  <2> QED
    BY <1>4, <2>1, <2>3, OnlyWindow DEF open
<1>5. ASSUME NEW d \in Invites, NEW x \in Items, Change(w, d, x),
             me.at \in {"open", "proving"},
             x \in Stakes => (x \in data[d] \/ Adding(me, x)),
             UNCHANGED <<inviteVars, draftVars, file, traces>>
      PROVE  Inv'
  <2> DEFINE n == IF x \in data[d] THEN data[d] \ {x} ELSE data[d] \cup {x}
             m == [me EXCEPT !.at = "writing", !.item = x, !.target = d, !.next = n]
  <2>1. n \in SUBSET Items
    BY <1>1 DEF TypeOK
  <2>2. m \in Window /\ m.at = "writing" /\ m.item = x /\ m.target = d /\ m.next = n
        /\ m.version = me.version /\ m.draft = me.draft /\ m.shown = me.shown
    BY <1>1, <2>1 DEF Window
  <2>3. Reads(m)
    BY <1>1, <1>5, <2>2 DEF Good, Reads
  <2>4. Writes(m)
    <3>1. version[d] \in Nat /\ m.version = version[d]
      BY <1>1, <1>5, <2>2 DEF TypeOK, Versions, Change
    <3> QED
      BY <2>2, <3>1 DEF Writes
  <2>5. Good(m)
    BY <2>2, <2>3, <2>4 DEF Good, Publishes, Proves
  <2>6. ASSUME NEW s \in Stakes
        PROVE  /\ Adding(m, s) => Adding(me, s)
               /\ Busy(m, s) => (Busy(me, s) \/ \E e \in Invites : s \in data[e])
               /\ m.at # "dropping"
    BY <1>5, <2>2 DEF Adding, Busy
  <2> QED
    BY <1>5, <2>2, <2>5, <2>6, OnlyWindow DEF Change
<1>6. ASSUME NEW x \in Items, change(w, x) PROVE Inv'
  BY <1>5, <1>6 DEF change, Items
<1>7. ASSUME me.at \in {"proving", "writing"}, me.item \in Stakes,
             Adding(me, me.item), Go(w, [me EXCEPT !.at = "dropping"]),
             UNCHANGED <<inviteVars, draftVars, file, traces>>
      PROVE  Inv'
  <2> DEFINE m == [me EXCEPT !.at = "dropping"]
  <2>1. m \in Window /\ m.at = "dropping" /\ m.item = me.item
        /\ m.version = me.version /\ m.draft = me.draft /\ m.shown = me.shown
    BY <1>1 DEF Window
  <2>2. Good(m)
    BY <1>1, <1>7, <2>1 DEF Good, Reads, Writes, Publishes, Proves
  <2>3. \A d \in Invites : me.item \notin data[d]
    BY <1>7 DEF Inv, Once
  <2>4. ASSUME NEW s \in Stakes
        PROVE  /\ ~Adding(m, s)
               /\ Busy(m, s) => Busy(me, s)
               /\ m.item = s => \A d \in Invites : s \notin data[d]
    BY <1>7, <2>1, <2>3 DEF Adding, Busy
  <2> QED
    BY <1>7, <2>1, <2>2, <2>4, OnlyWindow
<1>8. CASE stakeRead(w)
  <2>1. me.at = "proving" /\ me.item \in Stakes /\ Adding(me, me.item)
    BY <1>1, <1>8 DEF stakeRead, Good, Proves, Adding
  <2> QED
    BY <1>5, <1>7, <1>8, <2>1 DEF stakeRead, Items
<1>9. CASE notSaved(w)
  BY <1>2, <1>7, <1>9 DEF notSaved, AfterFailure, Adds, Adding
<1>10. ASSUME NEW d \in Invites, me.at = "open", version[d] = me.version,
              UNCHANGED <<inviteVars, draftVars, file, traces>>,
              Go(w, [me EXCEPT !.at = "publishing", !.target = d, !.next = data[d]])
       PROVE  Inv'
  <2> DEFINE m == [me EXCEPT !.at = "publishing", !.target = d, !.next = data[d]]
  <2>1. m \in Window /\ m.at = "publishing" /\ m.target = d /\ m.next = data[d]
        /\ m.version = me.version /\ m.draft = me.draft /\ m.shown = me.shown
    BY <1>1 DEF Window, TypeOK
  <2>2. version[d] \in Nat /\ version[d] = me.version /\ me.at = "open"
    <3>1. version[d] \in Nat
      BY <1>1 DEF TypeOK, Versions
    <3> QED
      BY <1>10, <3>1
  <2> HIDE DEF m
  <2>3. Good(m) /\ \A s \in Stakes : ~Busy(m, s) /\ ~Adding(m, s)
    BY <1>1, <2>1, <2>2 DEF Good, Reads, Writes, Publishes, Proves, Busy, Adding
  <2> QED
    BY <1>10, <2>1, <2>3, OnlyWindow DEF m
<1>11. CASE publishFiles(w)
  <2> DEFINE m == [me EXCEPT !.at = "claiming"]
  <2>1. m \in Window /\ m.at = "claiming" /\ m.target = me.target /\ m.next = me.next
        /\ m.version = me.version /\ m.draft = me.draft /\ m.shown = me.shown
    BY <1>1 DEF Window
  <2>2. Good(m) /\ \A s \in Stakes : ~Busy(m, s) /\ ~Adding(m, s)
    BY <1>1, <1>11, <2>1
    DEF publishFiles, Good, Reads, Writes, Publishes, Proves, Busy, Adding
  <2> QED
    BY <1>11, <2>1, <2>2, OnlyWindow DEF publishFiles
<1>12. CASE abort(w)
  BY <1>2, <1>12 DEF abort
<1>13. CASE publishRead(w)
  BY <1>10, <1>13 DEF publishRead
<1> QED
  BY <1>3, <1>4, <1>6, <1>8, <1>9, <1>11, <1>12, <1>13

\* The invitation moves; drafts and windows do not.
LEMMA InvInvites ==
    ASSUME Inv, NEW i \in Invites,
           \/ inviteRead(i) \/ inviteCreate(i) \/ inviteExpires(i)
           \/ reissueOnboardingInvite(i) \/ revokeOnboardingInvite(i)
    PROVE  Inv'
<1>1. /\ invite[i] # "ACCEPTED"
      /\ \E to \in {"CHECKED", "ACTIVE", "EXPIRED", "REVOKED"} :
            invite' = [invite EXCEPT ![i] = to]
      /\ UNCHANGED <<account, older, draftVars, file, windows, traces>>
  BY DEF inviteRead, inviteCreate, inviteExpires, reissueOnboardingInvite,
         revokeOnboardingInvite, setInvite
<1> USE <1>1 DEF Inv, draftVars, traces
<1>2. TypeOK'
  BY DEF TypeOK
<1>3. Invited'
  BY DEF Invited, TypeOK
<1>4. (NoLostEdit /\ PublishedAsShown /\ ProofsKept)'
  BY DEF NoLostEdit, PublishedAsShown, ProofsKept, InProgress
<1>5. ASSUME NEW w \in Windows PROVE Good(windows[w])'
  <2>1. Good(windows[w])
    OBVIOUS
  <2> QED
    BY <2>1 DEF Good, Reads, Writes, Publishes, Proves
<1>6. ASSUME NEW s \in Stakes PROVE Once(s)'
  <2>1. Once(s)
    OBVIOUS
  <2> QED
    BY <2>1 DEF Once, Adding, Busy
<1> QED
  BY <1>2, <1>3, <1>4, <1>5, <1>6

\* A step after which window w is closed and the others are as they were:
\* nothing is asked of w any more.
LEMMA AfterClose ==
    ASSUME Inv, NEW w \in Windows, Close(w)
    PROVE  /\ windows' \in [Windows -> Window]
           /\ Good(windows[w])'
           /\ \A v \in Windows : v # w => windows'[v] = windows[v]
           /\ \A s \in Stakes : ~Busy(windows'[w], s) /\ ~Adding(windows'[w], s)
           /\ windows'[w].at = "closed"
<1>1. windows \in [Windows -> Window]
  BY DEF Inv, TypeOK
<1>2. windows' \in [Windows -> Window] /\ windows'[w] = Closed
  BY <1>1, ClosedIsGood DEF Close
<1>3. \A v \in Windows : v # w => windows'[v] = windows[v]
  BY <1>1 DEF Close
<1>4. Good(windows[w])'
  BY <1>2, ClosedIsGood DEF Good, Reads, Writes, Publishes, Proves
<1> QED
  BY <1>2, <1>3, <1>4, ClosedIsGood DEF Busy, Adding

LEMMA InvAccept ==
    ASSUME Inv, NEW w \in Windows, acceptCommit(w)
    PROVE  Inv'
<1> DEFINE i == windows[w].draft
<1>1. i \in Invites /\ invite[i] = "ACTIVE" /\ draft[i] = "NONE" /\ data[i] = {}
  <2>1. i \in Invites /\ invite[i] = "ACTIVE"
    BY WindowOf DEF acceptCommit, Good, Reads
  <2> QED
    BY <2>1 DEF Inv, Invited
<1>2. /\ invite' = [invite EXCEPT ![i] = "ACCEPTED"] /\ account' = TRUE
      /\ draft' = [draft EXCEPT ![i] = "IN_PROGRESS"]
      /\ older' = [older EXCEPT ![i] = {d \in Invites : draft[d] # "NONE"}]
      /\ Close(w)
      /\ UNCHANGED <<version, data, published, edits, screen, file, traces>>
  BY DEF acceptCommit
<1> HIDE DEF i
<1>3. TypeOK /\ Invited /\ NoLostEdit /\ PublishedAsShown /\ ProofsKept
  BY DEF Inv
<1>4. TypeOK'
  BY <1>1, <1>2, <1>3, AfterClose DEF TypeOK, traces
<1>5. (Invited /\ NoLostEdit /\ PublishedAsShown /\ ProofsKept)'
  BY <1>1, <1>2, <1>3
  DEF Invited, NoLostEdit, PublishedAsShown, ProofsKept, InProgress, TypeOK, traces
<1>6. ASSUME NEW v \in Windows, v # w PROVE Good(windows[v])'
  <2>1. Good(windows[v]) /\ windows'[v] = windows[v]
    BY <1>2, <1>6, AfterClose DEF Inv
  <2> QED
    BY <1>2, <2>1 DEF Good, Reads, Writes, Publishes, Proves
<1>7. ASSUME NEW s \in Stakes PROVE Once(s)'
  <2>1. Once(s)
    BY DEF Inv
  <2> QED
    BY <1>2, <2>1, AfterClose DEF Once, Adding, Busy, traces
<1> QED
  BY <1>2, <1>4, <1>5, <1>6, <1>7, AfterClose DEF Inv

LEMMA InvAddStake ==
    ASSUME Inv, NEW w \in Windows, NEW s \in Stakes, addDraftStake(w, s)
    PROVE  Inv'
<1> USE OnboardingAssumption
<1> DEFINE me == windows[w]
           m == [me EXCEPT !.at = "proving", !.item = s]
<1>1. PICK d \in Invites : file' = [file EXCEPT ![s] = d]
  BY DEF addDraftStake
<1>2. /\ me.at = "open" /\ file[s] = "NEW" /\ windows' = [windows EXCEPT ![w] = m]
      /\ UNCHANGED <<inviteVars, draftVars, traces>>
  BY DEF addDraftStake, Go
<1>3. TypeOK /\ Invited /\ NoLostEdit /\ PublishedAsShown /\ ProofsKept /\ Once(s)
  BY DEF Inv
<1>4. me \in Window /\ Good(me)
  BY WindowOf
<1>5. m \in Window /\ m.at = "proving" /\ m.item = s
      /\ m.version = me.version /\ m.draft = me.draft /\ m.shown = me.shown
  BY <1>4 DEF Window, Items
<1>6. \A v \in Windows : windows'[v] = IF v = w THEN m ELSE windows[v]
  BY <1>2, <1>3 DEF TypeOK
<1>7. \A z \in Stakes : file'[z] = IF z = s THEN d ELSE file[z]
  BY <1>1, <1>3 DEF TypeOK
<1> HIDE DEF m
<1>8. TypeOK'
  BY <1>1, <1>2, <1>3, <1>5 DEF TypeOK, inviteVars, draftVars, traces
<1>9. (Invited /\ NoLostEdit /\ PublishedAsShown)'
  BY <1>2, <1>3 DEF Invited, NoLostEdit, PublishedAsShown, inviteVars, draftVars, traces
<1>10. ProofsKept'
  <2>1. \A e \in Invites : s \notin data[e]
    BY <1>2, <1>3 DEF Once
  <2> QED
    BY <1>2, <1>3, <1>7, <2>1 DEF ProofsKept, InProgress, draftVars, traces
<1>11. ASSUME NEW v \in Windows PROVE Good(windows[v])'
  <2>1. CASE v = w
    <3>1. /\ windows'[v].at = "proving" /\ windows'[v].item = s
          /\ windows'[v].version = me.version /\ windows'[v].draft = me.draft
          /\ windows'[v].shown = me.shown
      BY <1>5, <1>6, <2>1
    <3>2. Reads(me) /\ me.at = "open"
      BY <1>2, <1>4 DEF Good
    <3> QED
      BY <1>2, <3>1, <3>2 DEF Good, Reads, Writes, Publishes, Proves, draftVars
  <2>2. CASE v # w
    <3>1. Good(windows[v]) /\ windows'[v] = windows[v]
      BY <1>6, <2>2 DEF Inv
    <3> QED
      BY <1>2, <3>1 DEF Good, Reads, Writes, Publishes, Proves, draftVars
  <2> QED
    BY <2>1, <2>2
<1>12. ASSUME NEW z \in Stakes PROVE Once(z)'
  <2>1. Once(z) /\ UNCHANGED <<data, unheard>>
    BY <1>2 DEF Inv, draftVars, traces
  <2>2. CASE z = s
    <3>1. file'[z] # "NEW" /\ \A e \in Invites : z \notin data[e]
      BY <1>2, <1>7, <2>1, <2>2 DEF Once
    <3>2. \A v \in Windows : v # w => ~Busy(windows'[v], z)
      BY <1>2, <1>6, <2>1, <2>2 DEF Once
    <3>3. windows'[w].at = "proving"
      BY <1>5, <1>6
    <3> QED
      BY <2>1, <3>1, <3>2, <3>3 DEF Once, Adding, Busy
  <2>3. CASE z # s
    <3>1. ~Busy(windows'[w], z) /\ ~Adding(windows'[w], z) /\ windows'[w].at # "dropping"
      BY <1>5, <1>6, <2>3 DEF Busy, Adding
    <3>2. \A v \in Windows : v # w => windows'[v] = windows[v]
      BY <1>6
    <3> QED
      BY <1>7, <2>1, <2>3, <3>1, <3>2 DEF Once
  <2> QED
    BY <2>2, <2>3
<1> QED
  BY <1>8, <1>9, <1>10, <1>11, <1>12 DEF Inv

\* A file is dropped only when no kept stake needs it.
LEMMA InvDelete ==
    ASSUME Inv, NEW w \in Windows, deleteFile(w)
    PROVE  Inv'
<1> USE OnboardingAssumption
<1> DEFINE s == windows[w].item
<1>1. s \in Stakes /\ windows[w].at = "dropping"
  BY WindowOf DEF deleteFile, Good, Proves
<1>2. /\ file' = [file EXCEPT ![s] = "GONE"] /\ Close(w)
      /\ UNCHANGED <<inviteVars, draftVars, traces>>
  BY DEF deleteFile
<1> HIDE DEF s
<1>3. TypeOK /\ Invited /\ NoLostEdit /\ PublishedAsShown /\ ProofsKept
  BY DEF Inv
<1>4. \A z \in Stakes : file'[z] = IF z = s THEN "GONE" ELSE file[z]
  BY <1>2, <1>3 DEF TypeOK
<1>5. TypeOK'
  BY <1>1, <1>2, <1>3, AfterClose DEF TypeOK, inviteVars, draftVars, traces
<1>6. (Invited /\ NoLostEdit /\ PublishedAsShown)'
  BY <1>2, <1>3 DEF Invited, NoLostEdit, PublishedAsShown, inviteVars, draftVars, traces
<1>7. ProofsKept'
  <2>1. s \in unheard \/ \A e \in Invites : s \notin data[e]
    BY <1>1 DEF Inv, Once, s
  <2> QED
    BY <1>2, <1>3, <1>4, <2>1 DEF ProofsKept, InProgress, draftVars, traces
<1>8. ASSUME NEW v \in Windows, v # w PROVE Good(windows[v])'
  <2>1. Good(windows[v]) /\ windows'[v] = windows[v]
    BY <1>2, <1>8, AfterClose DEF Inv
  <2> QED
    BY <1>2, <2>1 DEF Good, Reads, Writes, Publishes, Proves, draftVars
<1>9. ASSUME NEW z \in Stakes PROVE Once(z)'
  <2>1. Once(z) /\ UNCHANGED <<data, unheard>>
    BY <1>2 DEF Inv, draftVars, traces
  <2>2. file'[z] = "NEW" => file[z] = "NEW"
    BY <1>4
  <2> QED
    BY <1>2, <2>1, <2>2, AfterClose DEF Once, Adding, Busy
<1> QED
  BY <1>2, <1>5, <1>6, <1>7, <1>8, <1>9, AfterClose DEF Inv

\* A draft ends: its files go, the other drafts keep theirs.
LEMMA ProofsOfOthers ==
    ASSUME Inv, NEW d \in Invites, file' = WithoutFilesOf(d),
           draft'[d] # "IN_PROGRESS",
           \A e \in Invites : e # d => draft'[e] = draft[e],
           UNCHANGED <<data, unheard>>, strayed \subseteq strayed'
    PROVE  /\ file' \in [Stakes -> {"NEW", "GONE"} \cup Invites]
           /\ \A z \in Stakes : file'[z] = "NEW" => file[z] = "NEW"
           /\ ProofsKept'
<1>1. \A z \in Stakes : file'[z] = IF file[z] = d THEN "GONE" ELSE file[z]
  BY DEF WithoutFilesOf
<1>2. file' \in [Stakes -> {"NEW", "GONE"} \cup Invites]
  BY DEF WithoutFilesOf, Inv, TypeOK
<1> QED
  BY <1>1, <1>2 DEF Inv, ProofsKept, InProgress

LEMMA InvDiscard ==
    ASSUME Inv, NEW d \in Invites, discardOnboardingDraft(d)
    PROVE  Inv'
<1> USE OnboardingAssumption
<1>1. /\ draft[d] = "IN_PROGRESS" /\ draft' = [draft EXCEPT ![d] = "DISCARDED"]
      /\ file' = WithoutFilesOf(d)
      /\ UNCHANGED <<inviteVars, version, data, published, edits, screen, windows, traces>>
  BY DEF discardOnboardingDraft, InProgress
<1>2. TypeOK /\ Invited /\ NoLostEdit /\ PublishedAsShown /\ ProofsKept
  BY DEF Inv
<1>3. \A e \in Invites : draft'[e] = IF e = d THEN "DISCARDED" ELSE draft[e]
  BY <1>1, <1>2 DEF TypeOK
<1>4. /\ file' \in [Stakes -> {"NEW", "GONE"} \cup Invites]
      /\ \A z \in Stakes : file'[z] = "NEW" => file[z] = "NEW"
      /\ ProofsKept'
  BY <1>1, <1>3, ProofsOfOthers DEF traces
<1>5. TypeOK'
  BY <1>1, <1>2, <1>4 DEF TypeOK, inviteVars, traces
<1>6. (Invited /\ NoLostEdit /\ PublishedAsShown)'
  BY <1>1, <1>2, <1>3 DEF Invited, NoLostEdit, PublishedAsShown, inviteVars, traces
<1>7. ASSUME NEW v \in Windows PROVE Good(windows[v])'
  <2>1. Good(windows[v])
    BY DEF Inv
  <2> QED
    BY <1>1, <2>1 DEF Good, Reads, Writes, Publishes, Proves
<1>8. ASSUME NEW z \in Stakes PROVE Once(z)'
  <2>1. Once(z)
    BY DEF Inv
  <2> QED
    BY <1>1, <1>4, <2>1 DEF Once, Adding, Busy, traces
<1> QED
  BY <1>4, <1>5, <1>6, <1>7, <1>8 DEF Inv

\* The version of a draft goes up by one; what other windows hold of it is old.
LEMMA GoodOfOthers ==
    ASSUME Inv, NEW w \in Windows, NEW v \in Windows, v # w,
           windows'[v] = windows[v], NEW d \in Invites,
           version' = [version EXCEPT ![d] = version[d] + 1],
           \A e \in Invites : e # d => data'[e] = data[e]
    PROVE  Good(windows[v])'
<1> DEFINE m == windows[v]
<1>1. m \in Window /\ Good(m)
  BY WindowOf
<1>2. m.version \in Nat /\ \A e \in Invites : version[e] \in Nat
  BY <1>1, OnboardingAssumption DEF Window, Versions, Inv, TypeOK
<1>3. \A e \in Invites : version'[e] = IF e = d THEN version[d] + 1 ELSE version[e]
  BY DEF Inv, TypeOK
<1>4. ASSUME NEW e \in Invites, m.version <= version[e]
      PROVE  /\ m.version <= version'[e]
             /\ m.version = version'[e] => (m.version = version[e] /\ data'[e] = data[e])
  BY <1>2, <1>3, <1>4
<1> HIDE DEF m
<1>5. m = windows'[v]
  BY DEF m
<1>6. Reads(windows[v])' /\ Proves(windows[v])'
  BY <1>1, <1>4, <1>5 DEF Good, Reads, Proves
<1>7. Writes(windows[v])'
  BY <1>1, <1>4, <1>5 DEF Good, Writes
<1>8. Publishes(windows[v])'
  BY <1>1, <1>4, <1>5 DEF Good, Publishes
<1> QED
  BY <1>6, <1>7, <1>8 DEF Good

\* What saved does, apart from the window.
LEMMA SavedEdit ==
    ASSUME Inv, NEW w \in Windows, saved(w)
    PROVE  LET me == windows[w]
               d == me.target
           IN  /\ d \in Invites /\ draft[d] = "IN_PROGRESS" /\ version[d] = me.version
               /\ me.at = "writing" /\ me.item \in Items
               /\ me.next = IF me.item \in data[d] THEN data[d] \ {me.item}
                            ELSE data[d] \cup {me.item}
               /\ version' = [version EXCEPT ![d] = version[d] + 1]
               /\ version[d] + 1 \in Versions
               /\ data' = [data EXCEPT ![d] = me.next]
               /\ edits' = [edits EXCEPT ![d] = me.next]
               /\ me.next \in SUBSET Items
<1> DEFINE me == windows[w]
           d == me.target
<1>1. me \in Window /\ me.at = "writing" /\ Writes(me) /\ Lands(w)
  BY WindowOf DEF saved, Good
<1>2. d \in Invites /\ draft[d] = "IN_PROGRESS" /\ version[d] = me.version
      /\ me.item \in Items
      /\ me.next = IF me.item \in data[d] THEN data[d] \ {me.item}
                   ELSE data[d] \cup {me.item}
  <2>1. d \in Invites /\ draft[d] = "IN_PROGRESS" /\ version[d] = me.version
    BY <1>1 DEF Lands, InProgress
  <2> QED
    BY <1>1, <2>1 DEF Writes
<1>3. /\ version' = [version EXCEPT ![d] = version[d] + 1]
      /\ version[d] + 1 <= MaxVersion
      /\ data' = [data EXCEPT ![d] = me.next]
      /\ edits' = [edits EXCEPT ![d] =
             IF me.item \in me.next THEN @ \cup {me.item} ELSE @ \ {me.item}]
  BY DEF saved, NextVersion, Adds
<1>4. edits[d] = data[d] /\ version[d] \in Versions
  BY <1>2 DEF Inv, NoLostEdit, TypeOK
<1>5. edits' = [edits EXCEPT ![d] = me.next]
  BY <1>2, <1>3, <1>4
<1>6. version[d] + 1 \in Versions
  BY <1>3, <1>4, OnboardingAssumption DEF Versions
<1>7. me.next \in SUBSET Items
  BY <1>1 DEF Window
<1> QED
  BY <1>1, <1>2, <1>3, <1>5, <1>6, <1>7

\* What becomes of the window that saved.
LEMMA SavedWindow ==
    ASSUME Inv, NEW w \in Windows, saved(w)
    PROVE  LET me == windows[w]
           IN  /\ windows' \in [Windows -> Window]
               /\ \A v \in Windows : v # w => windows'[v] = windows[v]
               /\ unheard \subseteq unheard' /\ unheard' \in SUBSET Stakes
               /\ strayed' = strayed \cup {e \in {me.target} : Strays(w)}
               /\ UNCHANGED <<inviteVars, draft, published, screen, file>>
               /\ \/ windows'[w].at = "closed"
                  \/ /\ windows'[w] = [me EXCEPT !.at = "dropping"]
                     /\ me.item \in Stakes
                     /\ me.item \in unheard' \/ me.item \notin me.next
<1> DEFINE me == windows[w]
           m == [me EXCEPT !.at = "dropping"]
<1>1. me \in Window /\ windows \in [Windows -> Window] /\ unheard \in SUBSET Stakes
  BY WindowOf DEF Inv, TypeOK
<1>2. m \in Window
  BY <1>1 DEF Window
<1>3. PICK answered \in BOOLEAN :
        /\ unheard' = unheard \cup {s \in {me.item} : ~answered /\ AfterFailure(w)}
        /\ IF \/ answered /\ me.item \in Stakes /\ ~Adds(w)
              \/ ~answered /\ AfterFailure(w)
           THEN windows' = [windows EXCEPT ![w] = m]
           ELSE windows' = [windows EXCEPT ![w] = Closed]
  BY DEF saved, Go, Close
<1>4. /\ strayed' = strayed \cup {e \in {me.target} : Strays(w)}
      /\ UNCHANGED <<inviteVars, draft, published, screen, file>>
  BY DEF saved
<1> HIDE DEF m
<1>5. unheard \subseteq unheard' /\ unheard' \in SUBSET Stakes
  BY <1>1, <1>3 DEF AfterFailure
<1>6. CASE windows' = [windows EXCEPT ![w] = Closed]
  BY <1>1, <1>4, <1>5, <1>6, ClosedIsGood
<1>7. CASE /\ windows' = [windows EXCEPT ![w] = m]
           /\ me.item \in Stakes
           /\ me.item \in unheard' \/ me.item \notin me.next
  BY <1>1, <1>2, <1>4, <1>5, <1>7 DEF m
<1> QED
  BY <1>3, <1>6, <1>7 DEF AfterFailure, Adds

LEMMA InvSaved ==
    ASSUME Inv, NEW w \in Windows, saved(w)
    PROVE  Inv'
<1> USE OnboardingAssumption
<1> DEFINE me == windows[w]
           d == me.target
<1>1. /\ d \in Invites /\ draft[d] = "IN_PROGRESS" /\ version[d] = me.version
      /\ me.at = "writing" /\ me.item \in Items
      /\ me.next = IF me.item \in data[d] THEN data[d] \ {me.item}
                   ELSE data[d] \cup {me.item}
      /\ version' = [version EXCEPT ![d] = version[d] + 1] /\ version[d] + 1 \in Versions
      /\ data' = [data EXCEPT ![d] = me.next] /\ edits' = [edits EXCEPT ![d] = me.next]
      /\ me.next \in SUBSET Items
  BY SavedEdit
<1>2. /\ windows' \in [Windows -> Window]
      /\ \A v \in Windows : v # w => windows'[v] = windows[v]
      /\ unheard \subseteq unheard' /\ unheard' \in SUBSET Stakes
      /\ strayed' = strayed \cup {e \in {d} : Strays(w)}
      /\ UNCHANGED <<inviteVars, draft, published, screen, file>>
      /\ \/ windows'[w].at = "closed"
         \/ /\ windows'[w] = [me EXCEPT !.at = "dropping"]
            /\ me.item \in Stakes
            /\ me.item \in unheard' \/ me.item \notin me.next
  BY SavedWindow
<1>3. TypeOK /\ Invited /\ NoLostEdit /\ PublishedAsShown /\ ProofsKept
  BY DEF Inv
<1>4. /\ \A e \in Invites : data'[e] = IF e = d THEN me.next ELSE data[e]
      /\ \A e \in Invites : edits'[e] = IF e = d THEN me.next ELSE edits[e]
      /\ \A e \in Invites : version'[e] = IF e = d THEN version[d] + 1 ELSE version[e]
  BY <1>1, <1>3 DEF TypeOK
<1>5. TypeOK'
  BY <1>1, <1>2, <1>3 DEF TypeOK, inviteVars
<1>6. (Invited /\ NoLostEdit /\ PublishedAsShown)'
  BY <1>1, <1>2, <1>3, <1>4 DEF Invited, NoLostEdit, PublishedAsShown, inviteVars
<1>7. ProofsKept'
  <2>1. ASSUME NEW e \in (InProgress \ strayed)', NEW s \in (data[e] \cap Stakes)'
        PROVE  (s \in unheard \/ file[s] = e)'
    <3>1. e \in InProgress \ strayed /\ s \in Stakes
      BY <1>2, <2>1 DEF InProgress
    <3>2. CASE s \in data[e]
      BY <1>2, <1>3, <3>1, <3>2 DEF ProofsKept
    <3>3. CASE s \notin data[e]
      <4>1. e = d /\ s = me.item /\ s \in me.next
        BY <1>1, <1>4, <2>1, <3>1, <3>3 DEF InProgress
      <4>2. ~Strays(w)
        BY <1>2, <2>1, <4>1
      <4> QED
        BY <1>2, <3>1, <4>1, <4>2 DEF Strays, Adds
    <3> QED
      BY <3>2, <3>3
  <2> QED
    BY <2>1 DEF ProofsKept
<1>8. ASSUME NEW v \in Windows PROVE Good(windows[v])'
  <2>1. CASE v # w
    <3>1. windows'[v] = windows[v]
      BY <1>2, <2>1
    <3>2. \A e \in Invites : e # d => data'[e] = data[e]
      BY <1>4
    <3>3. d \in Invites /\ version' = [version EXCEPT ![d] = version[d] + 1]
      BY <1>1
    <3> HIDE DEF d
    <3> QED
      BY <2>1, <3>1, <3>2, <3>3, GoodOfOthers
  <2>2. CASE v = w /\ windows'[w].at = "closed"
    BY <2>2 DEF Good, Reads, Writes, Publishes, Proves
  <2>3. CASE /\ v = w /\ windows'[w] = [me EXCEPT !.at = "dropping"]
             /\ me.item \in Stakes
    <3>1. me \in Window /\ Reads(me)
      BY WindowOf DEF Good
    <3>2. /\ windows'[v].at = "dropping" /\ windows'[v].item = me.item
          /\ windows'[v].version = me.version /\ windows'[v].draft = me.draft
          /\ windows'[v].shown = me.shown
      BY <2>3, <3>1 DEF Window
    <3>3. me.version \in Nat /\ \A e \in Invites : version[e] \in Nat
      BY <1>3, <3>1 DEF Window, Versions, TypeOK
    <3>4. /\ me.draft \in Invites
          /\ me.version <= version'[me.draft]
          /\ me.version = version'[me.draft] => me.shown = data'[me.draft]
      BY <1>1, <1>4, <3>1, <3>3 DEF Reads
    <3> QED
      BY <2>3, <3>2, <3>4 DEF Good, Reads, Writes, Publishes, Proves
  <2> QED
    BY <1>2, <2>1, <2>2, <2>3
<1>9. ASSUME NEW z \in Stakes PROVE Once(z)'
  <2>1. Once(z) /\ me \in Window
    BY WindowOf DEF Inv
  <2>2. windows'[w].at # "closed" =>
            /\ windows'[w].at = "dropping" /\ windows'[w].item = me.item
            /\ me.item \in unheard' \/ me.item \notin me.next
    BY <1>2, <2>1 DEF Window
  <2>3. ~Adding(windows'[w], z) /\ (z # me.item => ~Busy(windows'[w], z))
    BY <2>2 DEF Adding, Busy
  <2>4. CASE z # me.item
    <3>1. \A e \in Invites : z \in data'[e] <=> z \in data[e]
      BY <1>1, <1>4, <2>4
    <3>2. windows'[w].at = "dropping" => windows'[w].item # z
      BY <2>2, <2>4
    <3> QED
      BY <1>2, <2>1, <2>3, <2>4, <3>1, <3>2 DEF Once
  <2>5. CASE z = me.item /\ z \in data[d]
    <3>1. /\ file[z] # "NEW"
          /\ \A v \in Windows : ~Adding(windows[v], z)
          /\ \A e \in Invites : e # d => z \notin data[e]
      BY <1>1, <2>1, <2>5 DEF Once
    <3>2. \A e \in Invites : z \notin data'[e]
      BY <1>1, <1>4, <2>5, <3>1
    <3> QED
      BY <1>2, <2>3, <3>1, <3>2 DEF Once
  <2>6. CASE z = me.item /\ z \notin data[d]
    <3>1. Adding(me, z) /\ Busy(me, z) /\ z \in me.next
      BY <1>1, <2>6 DEF Adding, Busy
    <3>2. /\ file[z] # "NEW"
          /\ \A v \in Windows : v # w => ~Busy(windows[v], z)
          /\ \A e \in Invites : z \notin data[e]
      BY <2>1, <3>1 DEF Once
    <3>3. \A e \in Invites : z \in data'[e] => e = d
      BY <1>4, <3>2
    <3>4. \A v \in Windows : v # w =>
             ~Adding(windows'[v], z) /\ (windows'[v].at = "dropping" => windows'[v].item # z)
      BY <1>2, <3>2 DEF Adding, Busy
    <3>5. windows'[w].at = "dropping" => z \in unheard'
      BY <2>2, <2>6, <3>1
    <3> QED
      BY <1>2, <2>3, <3>2, <3>3, <3>4, <3>5 DEF Once
  <2> QED
    BY <2>4, <2>5, <2>6
<1> QED
  BY <1>5, <1>6, <1>7, <1>8, <1>9 DEF Inv

LEMMA InvPublish ==
    ASSUME Inv, NEW w \in Windows, publishCommit(w)
    PROVE  Inv'
<1> USE OnboardingAssumption
<1> DEFINE me == windows[w]
           d == me.target
<1>1. me \in Window /\ Good(me) /\ me.at = "claiming"
  BY WindowOf DEF publishCommit
<1>2. d \in Invites /\ draft[d] = "IN_PROGRESS" /\ version[d] = me.version
      /\ me.next = data[d]
  <2>1. d \in Invites /\ draft[d] = "IN_PROGRESS" /\ version[d] = me.version
    BY DEF publishCommit, Lands, InProgress
  <2> QED
    BY <1>1, <2>1 DEF Good, Publishes
<1>3. me.draft = d => me.shown = data[d]
  BY <1>1, <1>2 DEF Good, Reads
<1>4. /\ version[d] < MaxVersion
      /\ draft' = [draft EXCEPT ![d] = "PUBLISHED"]
      /\ version' = [version EXCEPT ![d] = version[d] + 1]
      /\ published' = [published EXCEPT ![d] = me.next]
      /\ screen' = [screen EXCEPT ![d] = me.shown]
      /\ strayed' = strayed \cup {e \in {d} : me.draft # d}
      /\ file' = WithoutFilesOf(d)
      /\ Close(w)
      /\ UNCHANGED <<inviteVars, data, edits, unheard>>
  BY DEF publishCommit
<1>5. TypeOK /\ Invited /\ NoLostEdit /\ PublishedAsShown /\ ProofsKept
  BY DEF Inv
<1>6. \A e \in Invites :
          /\ draft'[e] = IF e = d THEN "PUBLISHED" ELSE draft[e]
          /\ published'[e] = IF e = d THEN me.next ELSE published[e]
          /\ screen'[e] = IF e = d THEN me.shown ELSE screen[e]
  BY <1>4, <1>5 DEF TypeOK
<1>7. /\ file' \in [Stakes -> {"NEW", "GONE"} \cup Invites]
      /\ \A z \in Stakes : file'[z] = "NEW" => file[z] = "NEW"
      /\ ProofsKept'
  <2>1. strayed \subseteq strayed' /\ draft'[d] # "IN_PROGRESS"
        /\ \A e \in Invites : e # d => draft'[e] = draft[e]
    BY <1>2, <1>4, <1>6
  <2> QED
    BY <1>2, <1>4, <2>1, ProofsOfOthers
<1>8. TypeOK'
  <2>1. version[d] + 1 \in Versions /\ me.next \in SUBSET Items /\ me.shown \in SUBSET Items
    <3>1. version[d] \in Versions /\ version[d] < MaxVersion
      BY <1>2, <1>4, <1>5 DEF TypeOK
    <3>2. me.next \in SUBSET Items /\ me.shown \in SUBSET Items
      BY <1>1 DEF Window
    <3> QED
      BY <3>1, <3>2 DEF Versions
  <2>2. strayed' \in SUBSET Invites /\ windows' \in [Windows -> Window]
    BY <1>2, <1>4, <1>5, AfterClose DEF TypeOK
  <2> QED
    BY <1>2, <1>4, <1>5, <1>7, <2>1, <2>2 DEF TypeOK, inviteVars
<1>9. (Invited /\ NoLostEdit /\ PublishedAsShown)'
  BY <1>2, <1>3, <1>4, <1>5, <1>6
  DEF Invited, NoLostEdit, PublishedAsShown, inviteVars
<1>10. ASSUME NEW v \in Windows, v # w PROVE Good(windows[v])'
  BY <1>2, <1>4, <1>10, AfterClose, GoodOfOthers
<1>11. ASSUME NEW z \in Stakes PROVE Once(z)'
  <2>1. Once(z)
    BY DEF Inv
  <2> QED
    BY <1>4, <1>7, <2>1, AfterClose DEF Once, Adding, Busy
<1> QED
  BY <1>4, <1>7, <1>8, <1>9, <1>10, <1>11, AfterClose DEF Inv

-----------------------------------------------------------------------------
LEMMA InvStep == Inv /\ [Next]_vars => Inv'
<1> SUFFICES ASSUME Inv, [Next]_vars PROVE Inv'
  OBVIOUS
<1>1. CASE UNCHANGED vars
  <2> USE <1>1 DEF Inv, vars, inviteVars, draftVars, traces
  <2>1. (TypeOK /\ Invited /\ NoLostEdit /\ PublishedAsShown /\ ProofsKept)'
    BY DEF TypeOK, Invited, NoLostEdit, PublishedAsShown, ProofsKept, InProgress
  <2>2. ASSUME NEW v \in Windows PROVE Good(windows[v])'
    <3>1. Good(windows[v])
      OBVIOUS
    <3> QED
      BY <3>1 DEF Good, Reads, Writes, Publishes, Proves
  <2>3. ASSUME NEW z \in Stakes PROVE Once(z)'
    <3>1. Once(z)
      OBVIOUS
    <3> QED
      BY <3>1 DEF Once, Adding, Busy
  <2> QED
    BY <2>1, <2>2, <2>3
<1>2. ASSUME NEW i \in Invites,
             \/ inviteRead(i) \/ inviteCreate(i) \/ inviteExpires(i)
             \/ reissueOnboardingInvite(i) \/ revokeOnboardingInvite(i)
             \/ discardOnboardingDraft(i)
      PROVE  Inv'
  BY <1>2, InvInvites, InvDiscard
<1>3. ASSUME NEW w \in Windows,
             \/ \E i \in Invites : acceptRead(w, i)
             \/ \E d \in Invites, by \in {"page", "access"} : open(w, d, by)
             \/ \E x \in Items : change(w, x)
             \/ \E s \in Stakes : addDraftStake(w, s)
             \/ acceptCommit(w) \/ stakeRead(w) \/ saved(w) \/ notSaved(w)
             \/ deleteFile(w) \/ publishRead(w) \/ publishFiles(w)
             \/ publishCommit(w) \/ abort(w)
      PROVE  Inv'
  BY <1>3, InvReads, InvAddStake, InvAccept, InvSaved, InvDelete, InvPublish
<1> QED
  BY <1>1, <1>2, <1>3 DEF Next

LEMMA Invariance == Spec => []Inv
<1> QED
  BY InvInit, InvStep, PTL DEF Spec

\* Every reachable state is of the right type (schema.prisma, the models of
\* invitations, drafts and files).
THEOREM TypeCorrect == Spec => []TypeOK
<1>1. Inv => TypeOK
  BY DEF Inv
<1> QED
  BY <1>1, Invariance, PTL

\* Nobody's saved change is lost, and the ZEV is made from the last content,
\* for any number of windows, drafts, stakes and versions (applyDraftUpdate,
\* publishOnboardingDraft).
THEOREM EditsAreKept == Spec => []NoLostEdit
<1>1. Inv => NoLostEdit
  BY DEF Inv
<1> QED
  BY <1>1, Invariance, PTL

\* What is published is what the page showed (publishOnboardingDraft).
THEOREM PublicationIsReviewed == Spec => []PublishedAsShown
<1>1. Inv => PublishedAsShown
  BY DEF Inv
<1> QED
  BY <1>1, Invariance, PTL

\* Every stake of a draft in progress has its proof (addDraftStake).
THEOREM StakesAreProved == Spec => []ProofsKept
<1>1. Inv => ProofsKept
  BY DEF Inv
<1> QED
  BY <1>1, Invariance, PTL

\* The three kinds of steps, as far as closed drafts and spent invitations are
\* concerned: no draft moves, one draft in progress moves, one begins.
Kept(d) == UNCHANGED <<draft[d], version[d], data[d], published[d]>>
InvitationMoves ==
    /\ UNCHANGED draftVars
    /\ \/ UNCHANGED invite
       \/ \E i \in Invites, to \in {"CHECKED", "ACTIVE", "EXPIRED", "REVOKED"} :
            /\ invite[i] \notin {"ACCEPTED", "REVOKED"}
            /\ invite' = [invite EXCEPT ![i] = to]
DraftMoves ==
    \E i \in Invites : /\ draft[i] = "IN_PROGRESS" /\ UNCHANGED invite
                       /\ \A e \in Invites : e # i => Kept(e)

LEMMA KindsOfSteps ==
    ASSUME Inv, Next
    PROVE  InvitationMoves \/ DraftMoves \/ \E w \in Windows : acceptCommit(w)
<1>1. TypeOK
  BY DEF Inv
<1>2. ASSUME NEW w \in Windows, saved(w) PROVE DraftMoves
  <2> DEFINE i == windows[w].target
  <2>1. /\ i \in Invites /\ draft[i] = "IN_PROGRESS"
        /\ version' = [version EXCEPT ![i] = version[i] + 1]
        /\ data' = [data EXCEPT ![i] = windows[w].next]
    BY <1>2, SavedEdit
  <2>2. UNCHANGED <<invite, draft, published>>
    BY <1>2, SavedWindow DEF inviteVars
  <2>3. \A e \in Invites : e # i => Kept(e)
    BY <1>1, <2>1, <2>2 DEF TypeOK, Kept
  <2> QED
    BY <2>1, <2>2, <2>3 DEF DraftMoves
<1>3. ASSUME NEW w \in Windows, publishCommit(w) PROVE DraftMoves
  BY <1>1, <1>3
  DEF publishCommit, Lands, InProgress, TypeOK, inviteVars, DraftMoves, Kept
<1>4. ASSUME NEW i \in Invites, discardOnboardingDraft(i) PROVE DraftMoves
  BY <1>1, <1>4
  DEF discardOnboardingDraft, InProgress, TypeOK, inviteVars, DraftMoves, Kept
<1>5. ASSUME NEW w \in Windows,
             \/ \E i \in Invites : acceptRead(w, i)
             \/ \E e \in Invites, by \in {"page", "access"} : open(w, e, by)
             \/ \E x \in Items : change(w, x)
             \/ \E s \in Stakes : addDraftStake(w, s)
             \/ stakeRead(w) \/ notSaved(w) \/ deleteFile(w)
             \/ publishRead(w) \/ publishFiles(w) \/ abort(w)
      PROVE  InvitationMoves
  BY <1>5 DEF acceptRead, open, change, addDraftStake, stakeRead, notSaved,
              deleteFile, publishRead, publishFiles, abort, inviteVars,
              InvitationMoves
<1>6. ASSUME NEW i \in Invites,
             \/ inviteRead(i) \/ inviteCreate(i) \/ inviteExpires(i)
             \/ reissueOnboardingInvite(i) \/ revokeOnboardingInvite(i)
      PROVE  InvitationMoves
  BY <1>6 DEF inviteRead, inviteCreate, inviteExpires, reissueOnboardingInvite,
              revokeOnboardingInvite, setInvite, InvitationMoves
<1> QED
  BY <1>2, <1>3, <1>4, <1>5, <1>6 DEF Next

\* Closed drafts and spent invitations stay as they are (all handlers).
THEOREM ClosingIsFinal == Spec => ClosedIsFinal
<1>1. Inv /\ Next => Final
  <2> SUFFICES ASSUME Inv, Next, NEW d \in Invites
               PROVE  /\ draft[d] \in {"PUBLISHED", "DISCARDED"} => Kept(d)
                      /\ invite[d] \in {"ACCEPTED", "REVOKED"} => UNCHANGED invite[d]
    BY DEF Final, Kept
  <2>1. TypeOK /\ (draft[d] # "NONE" => invite[d] = "ACCEPTED")
    BY DEF Inv, Invited
  <2>2. CASE InvitationMoves
    BY <2>1, <2>2 DEF InvitationMoves, draftVars, TypeOK, Kept
  <2>3. CASE DraftMoves
    BY <2>3 DEF DraftMoves
  <2>4. ASSUME NEW w \in Windows, acceptCommit(w)
        PROVE  /\ draft[d] \in {"PUBLISHED", "DISCARDED"} => Kept(d)
               /\ invite[d] \in {"ACCEPTED", "REVOKED"} => UNCHANGED invite[d]
    BY <2>1, <2>4 DEF acceptCommit, TypeOK, Kept
  <2> QED
    BY <2>2, <2>3, <2>4, KindsOfSteps
<1>2. Inv /\ [Next]_vars => [Final]_vars
  BY <1>1
<1> QED
  BY <1>2, Invariance, PTL DEF Spec, ClosedIsFinal
=============================================================================
