----------------------------- MODULE ProfileForm -----------------------------
(***************************************************************************)
(* web/public/js/profiles.js: the form of a profile, reduced to the        *)
(* secrets of one agent, which the server never sends back: the form has a *)
(* row per secret and leaves its value blank.  A profile can be deleted,   *)
(* with force when containers use it, and other browsers store profiles    *)
(* meanwhile.  A secret is abstracted to who has set it last.              *)
(***************************************************************************)
EXTENDS Page

CONSTANTS
  Profiles, Keys,
  InUse         \* profiles that a container uses at first

\* "none" stands for the id of no profile
ASSUME ProfileAssumption == "none" \notin Profiles

VARIABLES
  vault,        \* the server: per profile that exists, who has set each key, or "unset"
  cards,        \* profiles: the list of this page, by the keys that are set
  users,        \* the profiles that containers use
  profileModal, \* what Bootstrap has of the dialog
  editingProfile,   \* the profile that is edited, as it was in the list
  secretRows,         \* the form: the profile it was filled for, the keys that have a
                \* row, and those with a value typed into it
  piled,        \* wireProfileForm() calls, each of which adds its own listeners
  blankRows,    \* rows without a key
  saving,       \* what was sent
  deleting,     \* the step deleteProfile() awaits
  cleared       \* history: the keys whose row was removed or renamed

profileOwn  == <<vault, cards, users, profileModal, editingProfile, secretRows, piled, blankRows,
                 saving, deleting, cleared>>
profileVars == <<profileOwn, user, fails>>
inputVars   == <<secretRows, blankRows, cleared>>

Unset    == [k \in Keys |-> "unset"]
NoVault  == [exists |-> FALSE, set |-> Unset]
NoCard   == [id |-> "none", keys |-> {}]
NoRows   == [for |-> "none", keys |-> {}, typed |-> {}]
NotSaved == [id |-> "none", update |-> FALSE, typed |-> {}, nulls |-> {}, cleared |-> {}]
NotGoing == [id |-> "none", step |-> "none"]

SetKeys(p) == {k \in Keys : vault[p].set[k] # "unset"}

\* one profile, with one secret
ProfileInit ==
  LET p == CHOOSE q \in Profiles : TRUE
      k == CHOOSE c \in Keys : TRUE IN
  /\ vault = [q \in Profiles |->
       IF q = p THEN [exists |-> TRUE, set |-> [Unset EXCEPT ![k] = "before"]] ELSE NoVault]
  /\ cards = {[id |-> p, keys |-> {k}]}
  /\ users = InUse
  /\ profileModal = "hidden" /\ editingProfile = NoCard
  /\ secretRows = NoRows /\ piled = 0 /\ blankRows = 0
  /\ saving = NotSaved /\ deleting = NotGoing
  /\ cleared = {}

Cards == {[id |-> p, keys |-> SetKeys(p)] : p \in {q \in Profiles : vault[q].exists}}

\* loadProfiles(), asked for by a button, by show(), and by what saved or deleted;
\* a failure empties the list
LoadProfiles(ok) ==
  /\ cards' = IF ok THEN Cards ELSE {}
  /\ IF ok THEN UNCHANGED fails ELSE Fails
  /\ UNCHANGED <<vault, users, profileModal, editingProfile, inputVars, piled, saving, deleting, user>>

\* openProfileModal() wires the body of the form again each time
OpenProfileModal(card) ==
  /\ profileModal = "hidden"
  /\ card \in cards \cup {NoCard}
  /\ UserDoes
  /\ profileModal' = "showing"
  /\ editingProfile' = card
  /\ secretRows' = [for |-> card.id, keys |-> card.keys, typed |-> {}]
  /\ piled' = piled + 1
  /\ blankRows' = 0
  /\ cleared' = {}
  /\ UNCHANGED <<vault, cards, users, saving, deleting, fails>>

\* one click, and one row per listener
AddSecret ==
  /\ Open(profileModal)
  /\ UserDoes
  /\ blankRows' = blankRows + piled
  /\ UNCHANGED <<vault, cards, users, profileModal, editingProfile, secretRows, piled, saving, deleting, cleared, fails>>

\* a value for a key that has a row, or for one that is written into a blank row
TypeSecret(k) ==
  /\ Open(profileModal)
  /\ k \notin secretRows.typed
  /\ k \notin secretRows.keys => blankRows > 0
  /\ UserDoes
  /\ secretRows' = [secretRows EXCEPT !.keys = @ \cup {k}, !.typed = @ \cup {k}]
  /\ blankRows' = IF k \in secretRows.keys THEN blankRows ELSE blankRows - 1
  /\ UNCHANGED <<vault, cards, users, profileModal, editingProfile, piled, saving, deleting, cleared, fails>>

\* another key in the row leaves the one before without a row; its value goes along
RenameRow(k, other) ==
  /\ Open(profileModal)
  /\ k \in secretRows.keys /\ other \notin secretRows.keys
  /\ UserDoes
  /\ secretRows' = [secretRows EXCEPT !.keys = (@ \ {k}) \cup {other},
                          !.typed = IF k \in @ THEN (@ \ {k}) \cup {other} ELSE @]
  /\ cleared' = (cleared \cup {k}) \ {other}
  /\ UNCHANGED <<vault, cards, users, profileModal, editingProfile, piled, blankRows, saving, deleting, fails>>

RemoveRow(k) ==
  /\ Open(profileModal)
  /\ k \in secretRows.keys
  /\ UserDoes
  /\ secretRows' = [secretRows EXCEPT !.keys = @ \ {k}, !.typed = @ \ {k}]
  /\ cleared' = cleared \cup {k}
  /\ UNCHANGED <<vault, cards, users, profileModal, editingProfile, piled, blankRows, saving, deleting, fails>>

CloseProfileModal ==
  /\ profileModal = "shown"
  /\ UserDoes
  /\ profileModal' = "hiding"
  /\ UNCHANGED <<vault, cards, users, editingProfile, inputVars, piled, saving, deleting, fails>>

\* shown.bs.modal; hidden.bs.modal forgets what is edited
ProfileModalSettles ==
  /\ profileModal \in {"showing", "hiding"}
  /\ profileModal' = IF profileModal = "showing" THEN "shown" ELSE "hidden"
  /\ editingProfile' = IF profileModal = "hiding" THEN NoCard ELSE editingProfile
  /\ UNCHANGED <<vault, cards, users, inputVars, piled, saving, deleting, user, fails>>

-----------------------------------------------------------------------------
(* saving *)

\* mutant: every secret without a value is sent as null
BlankClears(stored, keys, typed) == (stored \cup keys) \ typed

\* readAgentSection(): the stored secrets whose row is gone are sent as null; a
\* blank row keeps what is stored
Nulls(stored, keys, typed) == stored \ keys

\* saveProfile() up to its await; the button is disabled meanwhile
SaveProfile(id) ==
  /\ Open(profileModal)
  /\ saving = NotSaved
  /\ secretRows.for # "none" => id = secretRows.for
  /\ UserDoes
  /\ saving' = [id |-> id, update |-> editingProfile # NoCard, typed |-> secretRows.typed,
                nulls |-> Nulls(editingProfile.keys, secretRows.keys, secretRows.typed), cleared |-> cleared]
  /\ UNCHANGED <<vault, cards, users, profileModal, editingProfile, inputVars, piled, deleting, fails>>

\* the server merges per key, on a profile that exists; a create wants a free id
Merged(set) ==
  [k \in Keys |-> IF k \in saving.typed THEN "form" ELSE IF k \in saving.nulls THEN "unset" ELSE set[k]]

ProfileSaved ==
  /\ saving # NotSaved
  /\ vault[saving.id].exists <=> saving.update
  /\ vault' = [vault EXCEPT ![saving.id] = [exists |-> TRUE, set |-> Merged(@.set)]]
  /\ saving' = NotSaved
  /\ editingProfile' = NoCard
  /\ profileModal' = Hidden(profileModal)
  /\ UNCHANGED <<cards, users, inputVars, piled, deleting, user, fails>>

\* the form stays, with its error
ProfileRefused ==
  /\ saving # NotSaved
  /\ IF vault[saving.id].exists <=> saving.update THEN Fails ELSE UNCHANGED fails
  /\ saving' = NotSaved
  /\ UNCHANGED <<vault, cards, users, profileModal, editingProfile, inputVars, piled, deleting, user>>

-----------------------------------------------------------------------------
(* deleting *)

\* deleteProfile() and its confirmation
DeleteProfile(p) ==
  /\ profileModal = "hidden" /\ deleting = NotGoing
  /\ \E card \in cards : card.id = p
  /\ UserDoes
  /\ deleting' = [id |-> p, step |-> "asked"]
  /\ UNCHANGED <<vault, cards, users, profileModal, editingProfile, inputVars, piled, saving, fails>>

\* the server deletes a profile that no container uses, and any with force
DeleteAnswered ==
  /\ deleting.step \in {"asked", "forced"}
  /\ LET p == deleting.id IN
     IF vault[p].exists /\ (deleting.step = "forced" \/ p \notin users)
     THEN /\ vault' = [vault EXCEPT ![p] = NoVault]
          /\ users' = users \ {p}
          /\ deleting' = NotGoing
     ELSE /\ deleting' = IF vault[p].exists THEN [deleting EXCEPT !.step = "conflict"] ELSE NotGoing
          /\ UNCHANGED <<vault, users>>
  /\ UNCHANGED <<cards, profileModal, editingProfile, inputVars, piled, saving, user, fails>>

\* the second confirmation, which names the containers
ConfirmForce(yes) ==
  /\ deleting.step = "conflict"
  /\ deleting' = IF yes THEN [deleting EXCEPT !.step = "forced"] ELSE NotGoing
  /\ UNCHANGED <<vault, cards, users, profileModal, editingProfile, inputVars, piled, saving, user, fails>>

\* another browser sets or clears a secret, and somebody uses the profile
Elsewhere(p, k, who) ==
  /\ vault[p].exists
  /\ UserDoes
  /\ vault' = [vault EXCEPT ![p].set[k] = who]
  /\ users' \in {users, users \cup {p}}
  /\ UNCHANGED <<cards, profileModal, editingProfile, inputVars, piled, saving, deleting, fails>>

ProfileNext ==
  \/ \E ok \in BOOLEAN : LoadProfiles(ok) \/ ConfirmForce(ok)
  \/ \E card \in cards \cup {NoCard} : OpenProfileModal(card)
  \/ AddSecret
  \/ \E k \in Keys :
       \/ TypeSecret(k) \/ RemoveRow(k)
       \/ \E other \in Keys : RenameRow(k, other)
       \/ \E p \in Profiles, who \in {"elsewhere", "unset"} : Elsewhere(p, k, who)
  \/ CloseProfileModal \/ ProfileModalSettles
  \/ \E p \in Profiles : SaveProfile(p) \/ DeleteProfile(p)
  \/ ProfileSaved \/ ProfileRefused \/ DeleteAnswered

-----------------------------------------------------------------------------
(* A save sets the secrets that were typed and clears those whose row was  *)
(* taken away, and leaves every other one as it is by now: those that were *)
(* left blank, those another browser has set or changed while the form was *)
(* open, and those of the form that was open before.                       *)
SecretsKept ==
  [][\A p \in Profiles : (saving.id = p /\ saving' = NotSaved /\ vault'[p].exists /\ vault'[p] # vault[p])
       => \A k \in Keys :
            \/ vault'[p].set[k] = vault[p].set[k]
            \/ k \in saving.typed /\ vault'[p].set[k] = "form"
            \/ k \in saving.cleared /\ vault'[p].set[k] = "unset"]_profileVars
=============================================================================
