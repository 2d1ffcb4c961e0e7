------------------------------ MODULE FilesModal ------------------------------
(***************************************************************************)
(* web/public/js/containers.js: the dialog that lists the workspace of a   *)
(* container and uploads into the directory it shows, one request per      *)
(* file.  filesState is replaced whenever the dialog is opened or hidden,  *)
(* while the listings and uploads of before go on and write into the new   *)
(* one.  Directories are named alike in every workspace.                   *)
(***************************************************************************)
EXTENDS Page

CONSTANTS
  Works,        \* the containers whose files are looked at
  Dirs,         \* directories of a workspace, its root "/" among them
  Listings,     \* GET .../files in flight
  Picks,        \* uploadFiles() that run
  MaxFiles      \* bound: files picked at once

VARIABLES
  filesModal,   \* what Bootstrap has of the dialog
  filesState,   \* the container, the directory, and whether an upload runs
  screen,       \* whose listing is on the screen, if it is one
  listings,     \* per request: the container and the directory it is about
  picks,        \* per uploadFiles(): what is left, the request, and (history)
                \* the listing that was on the screen when the files were picked
  heedful       \* history: nobody hid the dialog or went elsewhere while files went
                \* up, nor hid it or picked files before a listing had come

filesOwn  == <<filesModal, filesState, screen, listings, picks, heedful>>
filesVars == <<filesOwn, user, fails>>

Nowhere   == [name |-> "none", dir |-> "/"]
Place     == [name |-> filesState.name, dir |-> filesState.dir]
Closed    == [name |-> "none", dir |-> "/", busy |-> FALSE]
NoListing == Nowhere
NoPick    == [left |-> 0, to |-> Nowhere, seen |-> Nowhere]

FilesInit ==
  /\ filesModal = "hidden"
  /\ filesState = Closed
  /\ screen = Nowhere
  /\ listings = [l \in Listings |-> NoListing]
  /\ picks = [p \in Picks |-> NoPick]
  /\ heedful = TRUE

NoneListed == \A l \in Listings : listings[l] = NoListing
NoneUp     == \A p \in Picks : picks[p] = NoPick

\* loadFiles() up to its await: "loading..."
LoadFiles(name, dir) ==
  LET free == {l \in Listings : listings[l] = NoListing} IN
  /\ screen' = Nowhere
  /\ IF name = "none" THEN UNCHANGED listings
     ELSE free # {} /\ listings' = [listings EXCEPT ![CHOOSE l \in free : TRUE] = [name |-> name, dir |-> dir]]

OpenFiles(name) ==
  /\ filesModal = "hidden"
  /\ UserDoes
  /\ filesModal' = "showing"
  /\ filesState' = [Closed EXCEPT !.name = name]
  /\ LoadFiles(name, "/")
  /\ heedful' = (heedful /\ NoneListed /\ NoneUp)
  /\ UNCHANGED <<picks, fails>>

\* mutant: the directory is the one that was asked for last
DirOnceAsked(event, dir) == IF event = "asked" THEN dir ELSE filesState.dir

\* the directory is the one that was listed last
DirOnceListed(event, dir) == IF event = "listed" THEN dir ELSE filesState.dir

\* a directory, the way up, a crumb, or the refresh button
GoTo(dir) ==
  /\ Open(filesModal) /\ filesState.name # "none"
  /\ UserDoes
  /\ filesState' = [filesState EXCEPT !.dir = DirOnceListed("asked", dir)]
  /\ LoadFiles(filesState.name, dir)
  /\ heedful' = (heedful /\ NoneUp)
  /\ UNCHANGED <<filesModal, picks, fails>>

\* the listing, for whichever container it was asked; or an alert, which
\* leaves the directory
Listed(l, ok) ==
  /\ listings[l] # NoListing
  /\ listings' = [listings EXCEPT ![l] = NoListing]
  /\ IF ok
     THEN /\ filesState' = [filesState EXCEPT !.dir = DirOnceListed("listed", listings[l].dir)]
          /\ screen' = listings[l]
          /\ UNCHANGED fails
     ELSE /\ Fails
          /\ screen' = Nowhere
          /\ UNCHANGED filesState
  /\ UNCHANGED <<filesModal, picks, heedful, user>>

\* uploadFiles(): the first request leaves at once
PickFiles(p, n) ==
  /\ Open(filesModal) /\ filesState.name # "none"
  /\ ~filesState.busy /\ picks[p] = NoPick
  /\ UserDoes
  /\ filesState' = [filesState EXCEPT !.busy = TRUE]
  /\ picks' = [picks EXCEPT ![p] = [left |-> n, to |-> Place, seen |-> screen]]
  /\ heedful' = (heedful /\ NoneListed)
  /\ UNCHANGED <<filesModal, screen, listings, fails>>

\* a file is up, or is reported; the next one goes where the dialog is by then,
\* and the last one is followed by a listing
Uploaded(p) ==
  /\ picks[p] # NoPick
  /\ IF picks[p].left > 1
     THEN /\ picks' = [picks EXCEPT ![p].left = @ - 1, ![p].to = Place]
          /\ UNCHANGED <<filesState, screen, listings>>
     ELSE /\ picks' = [picks EXCEPT ![p] = NoPick]
          /\ filesState' = [filesState EXCEPT !.busy = FALSE]
          /\ IF filesState.name = "none" THEN UNCHANGED <<screen, listings>>
             ELSE LoadFiles(filesState.name, filesState.dir)
  /\ UNCHANGED <<filesModal, heedful, user, fails>>

CloseFiles ==
  /\ filesModal = "shown"
  /\ UserDoes
  /\ filesModal' = "hiding"
  /\ heedful' = (heedful /\ NoneListed /\ NoneUp)
  /\ UNCHANGED <<filesState, screen, listings, picks, fails>>

\* shown.bs.modal; hidden.bs.modal replaces filesState
FilesModalSettles ==
  /\ filesModal \in {"showing", "hiding"}
  /\ filesModal' = IF filesModal = "showing" THEN "shown" ELSE "hidden"
  /\ filesState' = IF filesModal = "hiding" THEN Closed ELSE filesState
  /\ UNCHANGED <<screen, listings, picks, heedful, user, fails>>

FilesNext ==
  \/ \E w \in Works : OpenFiles(w)
  \/ \E d \in Dirs : GoTo(d)
  \/ \E l \in Listings, ok \in BOOLEAN : Listed(l, ok)
  \/ \E p \in Picks : Uploaded(p) \/ \E n \in 1..MaxFiles : PickFiles(p, n)
  \/ CloseFiles \/ FilesModalSettles

-----------------------------------------------------------------------------
(* Files go where the dialog showed their directory when they were picked, *)
(* every one of a pick, though each request looks the place up again: also *)
(* after directories that were listed in another order than they were      *)
(* asked for, or not at all, and after a dialog for another container.     *)
UploadsLand ==
  heedful => \A p \in Picks : picks[p].seen # Nowhere => picks[p].to = picks[p].seen
=============================================================================
