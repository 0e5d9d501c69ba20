----------------------------- MODULE Onboarding -----------------------------
(***************************************************************************)
(* The drafts of one invited person (one e-mail address), from invitation  *)
(* to publication: src/src/server/services/onboarding.ts, draftAccess.ts,  *)
(* onboardingImport.ts.                                                    *)
(*                                                                         *)
(* The content of a draft is a set of items: ownership stakes, each with   *)
(* the file that proves it, and other entries (parties, units, accounts,   *)
(* ...).  A window is a page of the wizard, or an assistant of the owner   *)
(* or of an administrator: it has read a draft, with its version, and      *)
(* sends one request.  The page finds the draft as the owner's newest one, *)
(* the assistant by its id.  Windows overlap and may die at any step.      *)
(***************************************************************************)
EXTENDS Naturals

CONSTANTS
    Invites,     \* the invitations to this address; an id of a draft, too
    Windows,
    Stakes,      \* stakes somebody may enter, each with its own proof file
    Entries,     \* other entries
    None,
    MaxVersion   \* bound

ASSUME OnboardingAssumption ==
    /\ None \notin Invites
    /\ None \notin Stakes \cup Entries
    /\ "NEW" \notin Invites /\ "GONE" \notin Invites
    /\ Stakes \cap Entries = {}
    /\ MaxVersion \in Nat

VARIABLES
    invite,      \* OnboardingInvite.status, "CHECKED": about to be created
    account,     \* whether the address has a User
    older,       \* the drafts that there were when this one was created
    draft,       \* OnboardingDraft.status
    version,     \* OnboardingDraft.version
    data,        \* OnboardingDraft.data
    published,   \* what the ZEV of the draft was made from
    file,        \* OnboardingDraftFile.draftId of a stake's proof
    windows,
    edits,       \* what the saved requests said (for the properties)
    screen,      \* what was shown to who published (for the properties)
    unheard,     \* stakes whose saving was not answered (for the properties)
    strayed      \* drafts written from a page of another (for the properties)

inviteVars == <<invite, account, older>>
draftVars == <<draft, version, data, published, edits, screen>>
traces == <<unheard, strayed>>
vars == <<inviteVars, draftVars, file, windows, traces>>

Items == Stakes \cup Entries
Versions == 0 .. MaxVersion

Window == [at: {"closed", "accepting", "open", "proving", "writing", "dropping",
                "publishing", "claiming"},
           by: {"page", "access"},
           draft: Invites \cup {None},   \* the one it has shown, or to accept
           version: Versions,
           shown: SUBSET Items,
           item: Items \cup {None},      \* to add, or to take out
           target: Invites \cup {None},  \* the draft loaded to be changed
           next: SUBSET Items,           \* its new content, or what to publish
           new: BOOLEAN]                 \* accepting without an account

Closed == [at |-> "closed", by |-> "page", draft |-> None, version |-> 0,
           shown |-> {}, item |-> None, target |-> None, next |-> {}, new |-> FALSE]

Init ==
    /\ invite = [i \in Invites |-> "NONE"]
    /\ account \in BOOLEAN
    /\ older = [i \in Invites |-> {}]
    /\ draft = [i \in Invites |-> "NONE"]
    /\ version = [i \in Invites |-> 0]
    /\ data = [i \in Invites |-> {}]
    /\ published = [i \in Invites |-> {}]
    /\ file = [s \in Stakes |-> "NEW"]
    /\ windows = [w \in Windows |-> Closed]
    /\ edits = [i \in Invites |-> {}]
    /\ screen = [i \in Invites |-> {}]
    /\ unheard = {}
    /\ strayed = {}

InProgress == {d \in Invites : draft[d] = "IN_PROGRESS"}

Go(w, me) == windows' = [windows EXCEPT ![w] = me]
Close(w) == windows' = [windows EXCEPT ![w] = Closed]

-----------------------------------------------------------------------------
(* The invitation.                                                         *)

\* createOnboardingInvite: no live invitation and no draft, and then the row.
inviteRead(i) ==
    /\ invite[i] = "NONE"
    /\ \A j \in Invites : invite[j] # "ACTIVE"
    /\ InProgress = {}
    /\ invite' = [invite EXCEPT ![i] = "CHECKED"]
    /\ UNCHANGED <<account, older, draftVars, file, windows, traces>>

setInvite(i, from, to) ==
    /\ invite[i] \in from
    /\ invite' = [invite EXCEPT ![i] = to]
    /\ UNCHANGED <<account, older, draftVars, file, windows, traces>>

inviteCreate(i) == setInvite(i, {"CHECKED"}, "ACTIVE")
inviteExpires(i) == setInvite(i, {"ACTIVE"}, "EXPIRED")
reissueOnboardingInvite(i) == setInvite(i, {"ACTIVE", "EXPIRED"}, "ACTIVE")
revokeOnboardingInvite(i) == setInvite(i, {"ACTIVE", "EXPIRED"}, "REVOKED")

acceptRead(w, i) ==
    /\ windows[w].at = "closed"
    /\ invite[i] = "ACTIVE"
    /\ Go(w, [windows[w] EXCEPT !.at = "accepting", !.draft = i, !.new = ~account])
    /\ UNCHANGED <<inviteVars, draftVars, file, traces>>

\* The invitation is spent, the account and the draft are created, or nothing
\* is: the address of an account is unique.
acceptCommit(w) ==
    LET i == windows[w].draft
    IN  /\ windows[w].at = "accepting"
        /\ invite[i] = "ACTIVE"
        /\ windows[w].new => ~account
        /\ invite' = [invite EXCEPT ![i] = "ACCEPTED"]
        /\ account' = TRUE
        /\ draft' = [draft EXCEPT ![i] = "IN_PROGRESS"]
        /\ older' = [older EXCEPT ![i] = {d \in Invites : draft[d] # "NONE"}]
        /\ Close(w)
        /\ UNCHANGED <<version, data, published, edits, screen, file, traces>>

-----------------------------------------------------------------------------
(* Reading a draft.                                                        *)

\* getMyDraft: the newest of the owner's.
Newest(d) ==
    /\ d \in InProgress
    /\ \A e \in InProgress : e = d \/ e \in older[d]

open(w, d, by) ==
    /\ windows[w].at = "closed"
    /\ IF by = "page" THEN Newest(d) ELSE d \in InProgress
    /\ Go(w, [windows[w] EXCEPT !.at = "open", !.by = by, !.draft = d,
              !.version = version[d], !.shown = data[d]])
    /\ UNCHANGED <<inviteVars, draftVars, file, traces>>

\* loadDraft, for the request of a window.
Loads(w, d) ==
    IF windows[w].by = "page" THEN Newest(d)
    ELSE d = windows[w].draft /\ d \in InProgress

\* applyDraftUpdate up to its updateMany: item x of draft d is to be added or
\* taken out.
Change(w, d, x) ==
    /\ Loads(w, d)
    /\ version[d] = windows[w].version
    /\ Go(w, [windows[w] EXCEPT !.at = "writing", !.item = x, !.target = d,
              !.next = IF x \in data[d] THEN data[d] \ {x} ELSE data[d] \cup {x}])

\* A page is closed, a process dies, a request is refused.
abort(w) ==
    /\ windows[w].at # "closed"
    /\ Close(w)
    /\ UNCHANGED <<inviteVars, draftVars, file, traces>>

-----------------------------------------------------------------------------
(* Changing a draft.                                                       *)

\* updateDraft, updateDraftByAccess and removeDraftStake: one item stands for
\* what the request changes.
change(w, x) ==
    /\ windows[w].at = "open"
    /\ \E d \in Invites : (x \in Entries \/ x \in data[d]) /\ Change(w, d, x)
    /\ UNCHANGED <<inviteVars, draftVars, file, traces>>

\* addDraftStake loads the draft, stores the proof with it ...
addDraftStake(w, s) ==
    /\ windows[w].at = "open"
    /\ file[s] = "NEW"
    /\ \E d \in Invites : Loads(w, d) /\ file' = [file EXCEPT ![s] = d]
    /\ Go(w, [windows[w] EXCEPT !.at = "proving", !.item = s])
    /\ UNCHANGED <<inviteVars, draftVars, traces>>

\* ... and loads it again to enter the stake, or takes the proof back.
stakeRead(w) ==
    /\ windows[w].at = "proving"
    /\ \/ \E d \in Invites : Change(w, d, windows[w].item)
       \/ Go(w, [windows[w] EXCEPT !.at = "dropping"])
    /\ UNCHANGED <<inviteVars, draftVars, file, traces>>

\* Mutants: the row is found by its id and the one condition, not the other.
LandsAnyVersion(w) == windows[w].target \in InProgress
LandsAnyStatus(w) == version[windows[w].target] = windows[w].version

\* updateMany where version and status are what was read counts one row.
Lands(w) ==
    /\ windows[w].target \in InProgress
    /\ version[windows[w].target] = windows[w].version

Adds(w) == windows[w].item \in windows[w].next

\* Mutant: a change that leaves the version alone.
SameVersion(d) == version[d]

NextVersion(d) == version[d] + 1

\* A draft written from the page of another, or a stake without its proof.
Strays(w) ==
    LET me == windows[w]
    IN  \/ me.draft # me.target
        \/ me.item \in Stakes /\ Adds(w) /\ file[me.item] # me.target

\* Mutant: the proof goes also when taking the stake out has failed.
AfterFailureDrop(w) == windows[w].item \in Stakes

\* The catch of addDraftStake deletes the proof.
AfterFailure(w) == windows[w].item \in Stakes /\ Adds(w)

\* The change is saved.  When the answer is lost, the service takes it for a
\* failure.
saved(w) ==
    LET me == windows[w]
        d == me.target
    IN  /\ me.at = "writing"
        /\ Lands(w)
        /\ NextVersion(d) <= MaxVersion
        /\ data' = [data EXCEPT ![d] = me.next]
        /\ version' = [version EXCEPT ![d] = NextVersion(d)]
        /\ edits' = [edits EXCEPT ![d] =
               IF Adds(w) THEN @ \cup {me.item} ELSE @ \ {me.item}]
        /\ strayed' = strayed \cup {e \in {d} : Strays(w)}
        /\ \E answered \in BOOLEAN :
            /\ unheard' = unheard \cup {s \in {me.item} : ~answered /\ AfterFailure(w)}
            /\ IF \/ answered /\ me.item \in Stakes /\ ~Adds(w)
                  \/ ~answered /\ AfterFailure(w)
               THEN Go(w, [windows[w] EXCEPT !.at = "dropping"])
               ELSE Close(w)
        /\ UNCHANGED <<inviteVars, draft, published, screen, file>>

notSaved(w) ==
    /\ windows[w].at = "writing"
    /\ IF AfterFailure(w) THEN Go(w, [windows[w] EXCEPT !.at = "dropping"]) ELSE Close(w)
    /\ UNCHANGED <<inviteVars, draftVars, file, traces>>

deleteFile(w) ==
    /\ windows[w].at = "dropping"
    /\ file' = [file EXCEPT ![windows[w].item] = "GONE"]
    /\ Close(w)
    /\ UNCHANGED <<inviteVars, draftVars, traces>>

-----------------------------------------------------------------------------
(* The end of a draft.                                                     *)

WithoutFilesOf(d) == [s \in Stakes |-> IF file[s] = d THEN "GONE" ELSE file[s]]

\* publishOnboardingDraft reads the draft.  Which content is complete is left
\* out: any may be.
publishRead(w) ==
    /\ windows[w].at = "open"
    /\ windows[w].by = "page"
    /\ \E d \in Invites :
        /\ Loads(w, d)
        /\ version[d] = windows[w].version
        /\ Go(w, [windows[w] EXCEPT !.at = "publishing", !.target = d, !.next = data[d]])
    /\ UNCHANGED <<inviteVars, draftVars, file, traces>>

\* Then the proofs: without one of them it throws.
publishFiles(w) ==
    /\ windows[w].at = "publishing"
    /\ \A s \in Stakes \cap windows[w].next : file[s] = windows[w].target
    /\ Go(w, [windows[w] EXCEPT !.at = "claiming"])
    /\ UNCHANGED <<inviteVars, draftVars, file, traces>>

\* And all in one transaction: the ZEV, and the draft closed.
publishCommit(w) ==
    LET me == windows[w]
        d == me.target
    IN  /\ me.at = "claiming"
        /\ Lands(w)
        /\ version[d] < MaxVersion
        /\ draft' = [draft EXCEPT ![d] = "PUBLISHED"]
        /\ version' = [version EXCEPT ![d] = version[d] + 1]
        /\ published' = [published EXCEPT ![d] = me.next]
        /\ screen' = [screen EXCEPT ![d] = me.shown]
        /\ strayed' = strayed \cup {e \in {d} : me.draft # d}
        /\ file' = WithoutFilesOf(d)
        /\ Close(w)
        /\ UNCHANGED <<inviteVars, data, edits, unheard>>

discardOnboardingDraft(d) ==
    /\ d \in InProgress
    /\ draft' = [draft EXCEPT ![d] = "DISCARDED"]
    /\ file' = WithoutFilesOf(d)
    /\ UNCHANGED <<inviteVars, version, data, published, edits, screen, windows, traces>>

Next ==
    \/ \E i \in Invites :
        \/ inviteRead(i) \/ inviteCreate(i) \/ inviteExpires(i)
        \/ reissueOnboardingInvite(i) \/ revokeOnboardingInvite(i)
        \/ discardOnboardingDraft(i)
    \/ \E w \in Windows :
        \/ \E i \in Invites : acceptRead(w, i)
        \/ \E d \in Invites, by \in {"page", "access"} : open(w, d, by)
        \/ \E x \in Items : change(w, x)
        \/ \E s \in Stakes : addDraftStake(w, s)
        \/ acceptCommit(w) \/ stakeRead(w) \/ saved(w) \/ notSaved(w)
        \/ deleteFile(w) \/ publishRead(w) \/ publishFiles(w) \/ publishCommit(w)
        \/ abort(w)

Spec == Init /\ [][Next]_vars

-----------------------------------------------------------------------------
TypeOK ==
    /\ invite \in [Invites -> {"NONE", "CHECKED", "ACTIVE", "EXPIRED", "REVOKED",
                               "ACCEPTED"}]
    /\ account \in BOOLEAN
    /\ older \in [Invites -> SUBSET Invites]
    /\ draft \in [Invites -> {"NONE", "IN_PROGRESS", "PUBLISHED", "DISCARDED"}]
    /\ version \in [Invites -> Versions]
    /\ data \in [Invites -> SUBSET Items]
    /\ published \in [Invites -> SUBSET Items]
    /\ file \in [Stakes -> {"NEW", "GONE"} \cup Invites]
    /\ windows \in [Windows -> Window]
    /\ edits \in [Invites -> SUBSET Items]
    /\ screen \in [Invites -> SUBSET Items]
    /\ unheard \in SUBSET Stakes
    /\ strayed \in SUBSET Invites

\* A draft holds what the saved requests said, one upon the other: nobody's
\* change is lost under another's, whatever windows overlap (applyDraftUpdate).
\* And the ZEV is made from the last of it (publishOnboardingDraft).
NoLostEdit ==
    \A d \in Invites :
        /\ data[d] = edits[d]
        /\ draft[d] = "PUBLISHED" => published[d] = edits[d]

\* What is published is what stood on the page it was published from, unless
\* the page was that of another draft (publishOnboardingDraft).
PublishedAsShown ==
    \A d \in Invites :
        (draft[d] = "PUBLISHED" /\ d \notin strayed) => published[d] = screen[d]

\* No stake without its proof, until the draft is published with both or
\* discarded with both; two cases apart, a lost answer and a page of another
\* draft (addDraftStake, removeDraftStake, discardOnboardingDraft).
ProofsKept ==
    \A d \in InProgress \ strayed : \A s \in data[d] \cap Stakes :
        s \in unheard \/ file[s] = d

\* What is published or discarded stays as it is, and so does an invitation
\* accepted or revoked, whatever was under way (all handlers).
Final ==
    \A d \in Invites :
        /\ draft[d] \in {"PUBLISHED", "DISCARDED"} =>
            UNCHANGED <<draft[d], version[d], data[d], published[d]>>
        /\ invite[d] \in {"ACCEPTED", "REVOKED"} => UNCHANGED invite[d]
ClosedIsFinal == [][Final]_vars
=============================================================================
