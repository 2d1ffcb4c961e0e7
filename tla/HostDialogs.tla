----------------------------- MODULE HostDialogs -----------------------------
(***************************************************************************)
(* web/public/js/hosts.js: the host form, the credential form that may be  *)
(* stacked over it, and the import of a credential's endpoints.  The three *)
(* share the requests for the endpoints of a credential, whose answers are *)
(* painted into the select or the list that asked, and Bootstrap's modals, *)
(* which take their time to come and go and ignore hide() meanwhile.  A    *)
(* host is reduced to its credential and the credential its endpoint was   *)
(* listed by; local sockets, names, agents and overrides are left out.     *)
(***************************************************************************)
EXTENDS Page

CONSTANTS
  HostIds, CredIds,
  Asks          \* GET .../endpoints in flight

VARIABLES
  creds,        \* the credentials the server has
  listed,       \* credentials, the list of this page
  stored,       \* the server: per host, its credential, whose endpoint it has, and, as
                \* history, whether the form that was saved had its select put back
  hostModal, credModal, importModal,    \* what Bootstrap has of the three modals
  hostForm,     \* the host the form was filled for, the credential #hf-credential shows,
                \* those it has as options, the one to go back to (previous, a local of
                \* openHostModal), whose endpoints #hf-endpoint offers; as history,
                \* whether the select was put back since these were asked for
  editingHost, editingCredential, importingCredential,
  credentialFromHostForm,
  importList,   \* whose endpoints #import-endpoints offers
  asks,         \* per request: for which form, and for which credential
  savingHost,   \* what was sent when the host form was saved
  savingCred,   \* the step saveCredential() awaits, and whether the host form wants it
  unhurried     \* history: no form asked for a list of endpoints while it waited for one

dialogOwn  == <<creds, listed, stored, hostModal, credModal, importModal, hostForm, editingHost,
                editingCredential, importingCredential, credentialFromHostForm, importList,
                asks, savingHost, savingCred, unhurried>>
dialogVars == <<dialogOwn, user, fails>>

hostVars   == <<hostModal, hostForm, editingHost>>
credVars   == <<credModal, editingCredential, credentialFromHostForm>>
importVars == <<importModal, importingCredential, importList>>

None      == "none"
NoHost    == [cred |-> None, from |-> None, putBack |-> FALSE]
NoAsk     == [form |-> None, cred |-> None]
NotSaving == [id |-> None, update |-> FALSE, cred |-> None, from |-> None, putBack |-> FALSE, on |-> FALSE]
CredIdle  == [step |-> "none", cred |-> None, offered |-> FALSE]

\* one host on the first credential
DialogInit ==
  LET k == CHOOSE c \in CredIds : TRUE
      h == CHOOSE i \in HostIds : TRUE IN
  /\ creds = {k} /\ listed = {k}
  /\ stored = [i \in HostIds |->
                 IF i = h THEN [cred |-> k, from |-> k, putBack |-> FALSE] ELSE NoHost]
  /\ hostModal = "hidden" /\ credModal = "hidden" /\ importModal = "hidden"
  /\ hostForm = [host |-> None, cred |-> None, options |-> {}, previous |-> None, from |-> None,
                  putBack |-> FALSE]
  /\ editingHost = None /\ editingCredential = None /\ importingCredential = None
  /\ credentialFromHostForm = FALSE
  /\ importList = None
  /\ asks = [e \in Asks |-> NoAsk]
  /\ savingHost = NotSaving /\ savingCred = CredIdle
  /\ unhurried = TRUE

-----------------------------------------------------------------------------
(* lists of endpoints *)

\* of the requests in flight before, those in waiting still have somebody to paint for
AskBeside(waiting, form, k) ==
  LET free == {e \in Asks : waiting[e] = NoAsk} IN
  /\ free # {}
  /\ asks' = [waiting EXCEPT ![CHOOSE e \in free : TRUE] = [form |-> form, cred |-> k]]

Ask(form, k) ==
  /\ AskBeside(asks, form, k)
  /\ unhurried' = (unhurried /\ \A e \in Asks : asks[e].form # form)

\* a select that is replaced is detached: what it asked for is painted where nobody sees it
Detached == [e \in Asks |-> IF asks[e].form = "host" THEN NoAsk ELSE asks[e]]

\* mutant: the endpoints of before stay until the others are there
KeepsOptions(k) == hostForm.from

\* "loading...", an option without a value
Blank(k) == None

\* fillEndpointSelect() up to its await
FillEndpointSelect(k) ==
  /\ hostForm' = [hostForm EXCEPT !.cred = k, !.previous = k, !.putBack = FALSE,
                     !.from = IF k = None THEN None ELSE Blank(k)]
  /\ IF k = None THEN UNCHANGED <<asks, unhurried>> ELSE Ask("host", k)

Endpoints(e, ok) ==
  LET ask == asks[e]
      from == IF ok THEN ask.cred ELSE None IN
  /\ ask # NoAsk
  /\ ok => ask.cred \in creds
  /\ IF ask.cred \in creds /\ ~ok THEN Fails ELSE UNCHANGED fails
  /\ asks' = [asks EXCEPT ![e] = NoAsk]
  /\ IF ask.form = "host"
     THEN hostForm' = [hostForm EXCEPT !.from = from] /\ UNCHANGED importList
     ELSE importList' = from /\ UNCHANGED hostForm
  /\ UNCHANGED <<creds, listed, stored, hostModal, editingHost, credVars, importModal,
                 importingCredential, savingHost, savingCred, unhurried, user>>

-----------------------------------------------------------------------------
(* the host form *)

\* openHostModal(): an edit loads the endpoints of the host's credential
OpenHostModal(h) ==
  /\ hostModal = "hidden" /\ credModal = "hidden" /\ importModal = "hidden"
  /\ h # None => stored[h] # NoHost
  /\ UserDoes
  /\ hostModal' = "showing"
  /\ editingHost' = h
  /\ LET k == IF h = None THEN None ELSE stored[h].cred
         shown == IF k \in listed THEN k ELSE None IN
     /\ hostForm' = [host |-> h, cred |-> shown, options |-> listed, previous |-> shown,
                     from |-> None, putBack |-> FALSE]
     /\ IF k = None THEN asks' = Detached ELSE AskBeside(Detached, "host", k)
  /\ UNCHANGED <<creds, listed, stored, credVars, importVars, savingHost, savingCred, unhurried, fails>>

PickCredential(k) ==
  /\ Open(hostModal) /\ credModal = "hidden"
  /\ k \in hostForm.options \cup {None} /\ k # hostForm.cred
  /\ UserDoes
  /\ FillEndpointSelect(k)
  /\ UNCHANGED <<creds, listed, stored, hostModal, editingHost, credVars, importVars,
                 savingHost, savingCred, fails>>

\* saveHost(): readHostForm() wants a credential and an endpoint
SaveHost ==
  /\ Open(hostModal) /\ credModal = "hidden"
  /\ ~savingHost.on
  /\ hostForm.cred # None /\ hostForm.from # None
  /\ UserDoes
  /\ savingHost' = [id |-> hostForm.host, update |-> editingHost # None,
                    cred |-> hostForm.cred, from |-> hostForm.from, putBack |-> hostForm.putBack,
                    on |-> TRUE]
  /\ UNCHANGED <<creds, listed, stored, hostVars, credVars, importVars, asks, savingCred, unhurried, fails>>

\* PUT, or POST of an id that must be free: the one in the form, or a new one;
\* a form whose host was forgotten still has the id
HostSaved(h) ==
  /\ savingHost.on
  /\ savingHost.id \in {None, h}
  /\ ~savingHost.update => stored[h] = NoHost
  /\ savingHost.cred \in creds
  /\ stored' = [stored EXCEPT ![h] = [cred |-> savingHost.cred, from |-> savingHost.from,
                                        putBack |-> savingHost.putBack]]
  /\ savingHost' = NotSaving
  /\ hostModal' = Hidden(hostModal)
  /\ editingHost' = None
  /\ UNCHANGED <<creds, listed, hostForm, credVars, importVars, asks, savingCred, unhurried, user, fails>>

HostRefused ==
  /\ savingHost.on
  /\ IF savingHost.id # None /\ ~savingHost.update THEN UNCHANGED fails ELSE Fails
  /\ savingHost' = NotSaving
  /\ UNCHANGED <<creds, listed, stored, hostVars, credVars, importVars, asks, savingCred, unhurried, user>>

CloseHostModal ==
  /\ hostModal = "shown" /\ credModal = "hidden"
  /\ UserDoes
  /\ hostModal' = "hiding"
  /\ UNCHANGED <<creds, listed, stored, hostForm, editingHost, credVars, importVars, asks, savingHost,
                 savingCred, unhurried, fails>>

\* shown.bs.modal; hidden.bs.modal forgets what is edited
HostModalSettles ==
  /\ hostModal \in {"showing", "hiding"}
  /\ hostModal' = IF hostModal = "showing" THEN "shown" ELSE "hidden"
  /\ editingHost' = IF hostModal = "hiding" THEN None ELSE editingHost
  /\ UNCHANGED <<creds, listed, stored, hostForm, credVars, importVars, asks, savingHost, savingCred,
                 unhurried, user, fails>>

-----------------------------------------------------------------------------
(* the credential form *)

\* the select goes back to what was there before "+ Add credential..." was picked, or
\* rather to the last credential that was picked, if that is an option; the endpoints stay
PutBack ==
  LET k == IF hostForm.previous \in hostForm.options THEN hostForm.previous ELSE None IN
  hostForm' = [hostForm EXCEPT !.cred = k, !.putBack = @ \/ k # hostForm.cred]

\* "+ Add credential..." of the host form, or a button of the panel
OpenCredentialModal(k, fromHost) ==
  /\ credModal = "hidden" /\ importModal = "hidden"
  /\ IF fromHost THEN Open(hostModal) /\ k = None ELSE hostModal = "hidden"
  /\ k \in listed \cup {None}
  /\ UserDoes
  /\ IF fromHost THEN PutBack ELSE UNCHANGED hostForm
  /\ credModal' = "showing"
  /\ editingCredential' = k
  /\ credentialFromHostForm' = IF k = None THEN fromHost ELSE credentialFromHostForm
  /\ UNCHANGED <<creds, listed, stored, hostModal, editingHost, importVars, asks, savingHost, savingCred,
                 unhurried, fails>>

SaveCredential(k) ==
  /\ Open(credModal)
  /\ savingCred = CredIdle
  /\ IF editingCredential = None THEN k \notin creds ELSE k = editingCredential
  /\ UserDoes
  /\ savingCred' = [step |-> "sent", cred |-> k, offered |-> FALSE]
  /\ UNCHANGED <<creds, listed, stored, hostVars, credVars, importVars, asks, savingHost, unhurried, fails>>

\* the answer: the flag is read before hide(), whose event will clear it
CredentialStored ==
  /\ savingCred.step = "sent"
  /\ creds' = creds \cup {savingCred.cred}
  /\ savingCred' = [savingCred EXCEPT !.step = "listing", !.offered = credentialFromHostForm]
  /\ editingCredential' = None
  /\ credModal' = Hidden(credModal)
  /\ UNCHANGED <<listed, stored, hostVars, credentialFromHostForm, importVars, asks, savingHost,
                 unhurried, user, fails>>

CredentialRefused ==
  /\ savingCred.step = "sent"
  /\ Fails
  /\ savingCred' = CredIdle
  /\ UNCHANGED <<creds, listed, stored, hostVars, credVars, importVars, asks, savingHost, unhurried, user>>

\* reloadCredentials() has ended; a failure leaves an empty list, and a select in
\* which the new credential is no option; previous stays what it was
CredentialsListed(ok) ==
  /\ savingCred.step = "listing"
  /\ listed' = IF ok THEN creds ELSE {}
  /\ IF ok THEN UNCHANGED fails ELSE Fails
  /\ savingCred' = CredIdle
  /\ IF savingCred.offered
     THEN /\ credentialFromHostForm' = FALSE
          /\ hostForm' = [hostForm EXCEPT !.cred = IF ok THEN savingCred.cred ELSE None, !.options = listed',
                             !.from = Blank(None), !.putBack = FALSE]
          /\ Ask("host", savingCred.cred)
     ELSE UNCHANGED <<credentialFromHostForm, hostForm, asks, unhurried>>
  /\ UNCHANGED <<creds, stored, hostModal, editingHost, credModal, editingCredential, importVars, savingHost, user>>

CloseCredentialModal ==
  /\ credModal = "shown"
  /\ UserDoes
  /\ credModal' = "hiding"
  /\ UNCHANGED <<creds, listed, stored, hostVars, editingCredential, credentialFromHostForm, importVars,
                 asks, savingHost, savingCred, unhurried, fails>>

CredentialModalSettles ==
  /\ credModal \in {"showing", "hiding"}
  /\ credModal' = IF credModal = "showing" THEN "shown" ELSE "hidden"
  /\ IF credModal = "hiding"
     THEN editingCredential' = None /\ credentialFromHostForm' = FALSE
     ELSE UNCHANGED <<editingCredential, credentialFromHostForm>>
  /\ UNCHANGED <<creds, listed, stored, hostVars, importVars, asks, savingHost, savingCred, unhurried, user, fails>>

\* a credential that no host uses; the server refuses the others
DeleteCredential(k) ==
  /\ hostModal = "hidden" /\ credModal = "hidden" /\ importModal = "hidden"
  /\ savingCred = CredIdle
  /\ k \in creds /\ \A h \in HostIds : stored[h].cred # k
  /\ UserDoes
  /\ creds' = creds \ {k} /\ listed' = creds'
  /\ UNCHANGED <<stored, hostVars, credVars, importVars, asks, savingHost, savingCred, unhurried, fails>>

-----------------------------------------------------------------------------
(* the import *)

OpenImportModal(k) ==
  /\ hostModal = "hidden" /\ credModal = "hidden" /\ importModal = "hidden"
  /\ k \in listed
  /\ UserDoes
  /\ importModal' = "showing"
  /\ importingCredential' = k
  /\ importList' = None
  /\ Ask("import", k)
  /\ UNCHANGED <<creds, listed, stored, hostVars, credVars, savingHost, savingCred, fails>>

\* runImport(), and what the server makes of one endpoint
RunImport(h) ==
  /\ Open(importModal)
  /\ importingCredential \in creds /\ importList # None
  /\ stored[h] = NoHost
  /\ UserDoes
  /\ stored' = [stored EXCEPT ![h] = [NoHost EXCEPT !.cred = importingCredential, !.from = importList]]
  /\ UNCHANGED <<creds, listed, hostVars, credVars, importVars, asks, savingHost, savingCred, unhurried, fails>>

CloseImportModal ==
  /\ importModal = "shown"
  /\ UserDoes
  /\ importModal' = "hiding"
  /\ UNCHANGED <<creds, listed, stored, hostVars, credVars, importingCredential, importList, asks,
                 savingHost, savingCred, unhurried, fails>>

ImportModalSettles ==
  /\ importModal \in {"showing", "hiding"}
  /\ importModal' = IF importModal = "showing" THEN "shown" ELSE "hidden"
  /\ importingCredential' = IF importModal = "hiding" THEN None ELSE importingCredential
  /\ UNCHANGED <<creds, listed, stored, hostVars, credVars, importList, asks, savingHost, savingCred,
                 unhurried, user, fails>>

DialogNext ==
  \/ \E e \in Asks, ok \in BOOLEAN : Endpoints(e, ok)
  \/ \E h \in HostIds \cup {None} : OpenHostModal(h)
  \/ \E k \in CredIds \cup {None} : PickCredential(k) \/ \E fromHost \in BOOLEAN : OpenCredentialModal(k, fromHost)
  \/ SaveHost \/ HostRefused \/ CloseHostModal \/ HostModalSettles
  \/ \E h \in HostIds : HostSaved(h) \/ RunImport(h)
  \/ \E k \in CredIds : SaveCredential(k) \/ DeleteCredential(k) \/ OpenImportModal(k)
  \/ CredentialStored \/ CredentialRefused \/ CloseCredentialModal \/ CredentialModalSettles
  \/ \E ok \in BOOLEAN : CredentialsListed(ok)
  \/ CloseImportModal \/ ImportModalSettles

-----------------------------------------------------------------------------
(* Whoever waits for the list of endpoints of a form before asking for the *)
(* next one stores no host whose endpoint another credential has listed,   *)
(* unless the select of the form was put back since it was filled: a form  *)
(* never offers the endpoints of before.                                   *)
EndpointOfCredential ==
  unhurried => \A h \in HostIds : stored[h].from = stored[h].cred \/ stored[h].putBack

\* "picking a credential fills #hf-endpoint": whoever waits for every list stores the host
\* with an endpoint that its credential has listed.
EndpointIsPicked ==
  unhurried => \A h \in HostIds : stored[h].from = stored[h].cred
=============================================================================
