------------------------------- MODULE DriveIndex -------------------------------
(***************************************************************************)
(* Finding a document by its title on the Google Drive mounts              *)
(* (gdocs/drive.rs: list, walk, resolve_title).  The tree is walked with a *)
(* cap on its depth and on the number of documents; that something was     *)
(* left out for a cap is in a flag, which an answer tells only if it found *)
(* nothing; what could not be read is not told.  A title must name one     *)
(* document: exact matches win over partial ones.                          *)
(*                                                                         *)
(* A title is the set of its words; documents with a usable stub only.     *)
(* The tree does not change while it is walked; entries, and mounts, come  *)
(* in any order.                                                           *)
(***************************************************************************)
EXTENDS Integers, Sequences, FiniteSets, SequencesExt

CONSTANTS
  Dirs,        \* Dirs[d] is the directory that holds d, or NoDir for a mount
  NoDir,
  Documents,   \* what may be there: a set of [name, dir, title]
  Words,       \* titles that may be asked for
  MaxDepth,    \* MAX_DEPTH
  MaxEntries   \* MAX_ENTRIES

(* Documents are in directories, and every directory is below a mount: a set that has the
   mounts, and with a directory those in it, has them all. *)
ASSUME TreeAssumption ==
  /\ \A f \in Documents : f.dir \in DOMAIN Dirs
  /\ \A ds \in SUBSET DOMAIN Dirs :
       (\A d \in DOMAIN Dirs : Dirs[d] \in ds \cup {NoDir} => d \in ds) => ds = DOMAIN Dirs

VARIABLES
  tree,       \* the documents that are there
  unread,     \* the directories that cannot be read
  stack,      \* the calls of walk, each with its entries left: a sequence of [dirs, files]
  docs,       \* the listing, ...
  truncated,  \* ... and whether a cap was hit
  answer      \* [is, doc, title, warns]; is: "waiting", "document", "none", "many" or
              \* "invalid"; warns: it says that the index was truncated

driveVars == <<tree, unread, stack, docs, truncated, answer>>

NoDoc == [name |-> "", dir |-> NoDir, title |-> {}]
Answer(is, doc, title, warns) == [is |-> is, doc |-> doc, title |-> title, warns |-> warns]

Subdirs(d) == {e \in DOMAIN Dirs : Dirs[e] = d}
Frame(d) == [dirs |-> Subdirs(d), files |-> {f \in tree : f.dir = d}]

(* list: the mounts are walked as if they were entries of a directory. *)
DriveInit ==
  /\ tree \in SUBSET Documents /\ unread \in SUBSET DOMAIN Dirs
  /\ stack = <<[dirs |-> Subdirs(NoDir), files |-> {}]>>
  /\ docs = {} /\ truncated = FALSE
  /\ answer = Answer("waiting", NoDoc, {}, FALSE)

Full == Cardinality(docs) >= MaxEntries
Depth == Len(stack) - 1

TopWith(frame) == Append(Front(stack), frame)

(* walk of a subdirectory, in whatever order read_dir has.
   Mutant: a directory that is too deep is skipped like one that cannot be read. *)
WalkTooDeepSilently(d) ==
  /\ truncated' = (truncated \/ Full)
  /\ LET caller == TopWith([Last(stack) EXCEPT !.dirs = @ \ {d}])
     IN  stack' = IF Depth > MaxDepth \/ Full \/ d \in unread THEN caller
                  ELSE Append(caller, Frame(d))
Walk(d) ==
  /\ truncated' = (truncated \/ Depth > MaxDepth \/ Full)
  /\ LET caller == TopWith([Last(stack) EXCEPT !.dirs = @ \ {d}])
     IN  stack' = IF Depth > MaxDepth \/ Full \/ d \in unread THEN caller
                  ELSE Append(caller, Frame(d))

WalkEntry ==
  /\ stack # <<>>
  /\ \E d \in Last(stack).dirs : Walk(d)
  /\ UNCHANGED <<tree, unread, docs, answer>>

(* A document; the one too many ends the walk of its directory. *)
ReadStub ==
  /\ stack # <<>>
  /\ \E f \in Last(stack).files :
       IF Full
       THEN truncated' = TRUE /\ stack' = Front(stack) /\ UNCHANGED docs
       ELSE /\ docs' = docs \cup {f}
            /\ stack' = TopWith([Last(stack) EXCEPT !.files = @ \ {f}])
            /\ UNCHANGED truncated
  /\ UNCHANGED <<tree, unread, answer>>

WalkReturns ==
  /\ stack # <<>> /\ Last(stack).dirs = {} /\ Last(stack).files = {}
  /\ stack' = Front(stack)
  /\ UNCHANGED <<tree, unread, docs, truncated, answer>>

(* resolve_title. *)
Matches(ds, title) ==
  LET exact == {f \in ds : f.title = title}
  IN  IF exact # {} THEN exact ELSE {f \in ds : title \subseteq f.title}

Resolved(ds, title, cut) ==
  LET found == Matches(ds, title)
  IN  IF title = {} THEN Answer("invalid", NoDoc, title, FALSE)
      ELSE IF found = {} THEN Answer("none", NoDoc, title, cut)
      ELSE IF Cardinality(found) = 1
      THEN Answer("document", CHOOSE f \in found : TRUE, title, FALSE)
      ELSE Answer("many", NoDoc, title, FALSE)

ResolveTitle(title) ==
  /\ stack = <<>> /\ answer.is = "waiting"
  /\ answer' = Resolved(docs, title, truncated)
  /\ UNCHANGED <<tree, unread, stack, docs, truncated>>

DriveNext ==
  \/ WalkEntry \/ ReadStub \/ WalkReturns
  \/ \E title \in Words : ResolveTitle(title)

DriveSpec == DriveInit /\ [][DriveNext]_driveVars

----------------------------------------------------------------------------
(* An answer from an index that no cap cut short is the answer for the whole tree: the
   one document meant, none, or that several are ("picking one silently would read the
   wrong document", drive.rs, resolve_title).  So is a "none" that does not warn, whatever
   the index.  Of a match in a listing that was cut short nothing is said: resolve_title
   takes the one match it has for the document meant, and tells of the cap only where it
   found nothing.  A directory that cannot be read makes any answer wrong without a word. *)
AnswerIsForTheWholeTree ==
  /\ answer.is # "waiting" /\ unread = {}
  /\ ~truncated \/ (answer.is = "none" /\ ~answer.warns)
  => answer = Resolved(tree, answer.title, FALSE)
=============================================================================
