------------------------------ MODULE SharedEnsure ------------------------------
(***************************************************************************)
(* Background owners and shared establishment: the launchers of "ensure"   *)
(* and of "run --daemon", the owner process each of them spawns, the       *)
(* private channel between the two, and the one slot and registry they all *)
(* compete for, together with foreground runs.                             *)
(*                                                                         *)
(* Abstractions.                                                           *)
(*  - A launcher spawns at most one owner and allocates its run identity   *)
(*    beforehand, so launcher, owner and run carry one name.               *)
(*  - The registry is its sequence of events, of which the creation and    *)
(*    the settlement of a run are kept; its file has an inode, which a     *)
(*    later file may be given again.  A contended read is retried and is   *)
(*    no step.                                                             *)
(*  - Preparation and execution are single steps: SlotSession has them.    *)
(*    Here a session may run for ever, end, or die.                        *)
(*  - Other programs may remove the registry file while nobody holds the   *)
(*    slot, up to MaxFiles files in all.                                   *)
(***************************************************************************)
EXTENDS Integers, Sequences, FiniteSets, SequencesExt

CONSTANTS
  Ensures,     \* ensure commands
  Daemons,     \* launchers of run --daemon
  Foregrounds, \* ordinary runs
  Request,     \* the declared request of every run
  Casts,       \* the sets of commands that may meet; the others never start
  MaxFiles,    \* bound: registry files that ever exist at the slot's path
  None

Launchers == Ensures \cup Daemons
Runs == Launchers \cup Foregrounds

ASSUME EnsureAssumption ==
  /\ Ensures \cap Daemons = {}
  /\ Launchers \cap Foregrounds = {}
  /\ None \notin Runs
  /\ DOMAIN Request = Runs
  /\ Casts \subseteq SUBSET Runs
  /\ MaxFiles \in Nat \ {0}

VARIABLES
  launcher,    \* launcher[l]: the step l is about to take
  mark,        \* the watermark an ensure enrolled with, None before
  hist,        \* the registry history an ensure has checked
  candidates,  \* the unfinished runs of its enrollment snapshot
  interrupted, \* the daemon launchers that received a signal
  pinned,      \* the run an ensure settled on
  said,        \* how the launcher ended
  told,        \* what it says of the session it asked its owner for
  owner,       \* owner[r]: the step of the process that may publish run r
  learned,     \* the history an owner has checked (its shared cursor)
  draft,       \* the reply an owner is about to write
  sent,        \* the request frame: "none", "partial", "full"
  left,        \* launchers whose write half is closed
  reply,       \* the complete reply frame on the channel
  holder,      \* the owner that holds slot.lock
  file,        \* inode of the registry file, 0 when there is none
  files,       \* how many there have been
  schema,      \* the file has its schema
  log,         \* its events
  finished,    \* its runs with finalization = 'complete'
  canceled,    \* runs whose owner was asked to cancel
  madeIn,      \* history: the inode of the file a run was published in, 0 before
  seen         \* history: the files that an ensure or its owner has read, and the
               \* greatest number of events it has found

launcherVars == <<launcher, mark, hist, candidates, interrupted, pinned, said, told>>
channelVars  == <<sent, left, reply>>
ownerVars    == <<owner, learned, draft>>
registryVars == <<file, files, schema, log, finished, madeIn>>
vars == <<launcherVars, channelVars, ownerVars, holder, registryVars, canceled, seen>>

Unseen == [phase |-> "unseen", file |-> 0, greatest |-> 0]

LauncherPCs == {"idle", "sampling", "seeking", "sending", "waiting", "selecting",
                "ended", "dead"}
WaitPCs     == {"receive", "resume", "seek", "try", "acquire"}
GuardPCs    == {"guarded", "open", "schema", "recover", "prepare", "check", "publish"}
SessionPCs  == {"session", "finalize", "close"}
OwnerPCs    == WaitPCs \cup GuardPCs \cup SessionPCs
                 \cup {"none", "replying", "linger", "exited"}
Ends        == {"none", "pinned", "mismatch", "corrupt", "rejected", "timeout",
                "uncertain", "failed", "established", "interrupted", "canceled",
                "undelivered"}
Certainties == {"none", "not-requested", "not-established", "uncertain", "established"}

Histories == [phase : {"unseen", "bootstrap", "complete"}, file : 0..MaxFiles,
              greatest : Nat]
\* The files are numbered; a reader cannot see the number.
Files     == [number : 1..MaxFiles, inode : 1..MaxFiles]
Replies   == [kind : {"established", "existing", "rejected"}, why : Ends,
              run : Runs, seq : Nat, hist : Histories]
Events    == [kind : {"created", "settled"}, run : Runs]

ASSUME NoneAssumption == None \notin Nat \cup Replies

TypeOK ==
  /\ launcher \in [Launchers -> LauncherPCs]
  /\ mark \in [Ensures -> Nat \cup {None}]
  /\ hist \in [Ensures -> Histories]
  /\ candidates \in [Ensures -> SUBSET Runs]
  /\ interrupted \subseteq Daemons
  /\ pinned \in [Ensures -> Runs \cup {None}]
  /\ said \in [Launchers -> Ends]
  /\ told \in [Launchers -> Certainties]
  /\ owner \in [Runs -> OwnerPCs]
  /\ learned \in [Ensures -> Histories]
  /\ draft \in [Launchers -> Replies \cup {None}]
  /\ sent \in [Launchers -> {"none", "partial", "full"}]
  /\ left \subseteq Launchers
  /\ reply \in [Launchers -> Replies \cup {None}]
  /\ holder \in Runs \cup {None}
  /\ file \in 0..MaxFiles
  /\ files \in 0..MaxFiles
  /\ schema \in BOOLEAN
  /\ log \in Seq(Events)
  /\ finished \subseteq Runs
  /\ canceled \subseteq Runs
  /\ madeIn \in [Runs -> 0..MaxFiles]
  /\ seen \in [Ensures -> [files : SUBSET Files, events : Nat]]

Init ==
  /\ \E cast \in Casts :
       /\ launcher = [l \in Launchers |-> IF l \in cast THEN "idle" ELSE "ended"]
       /\ owner = [r \in Runs |-> IF r \in cast \cap Foregrounds THEN "acquire" ELSE "none"]
  /\ mark = [c \in Ensures |-> None]
  /\ hist = [c \in Ensures |-> Unseen]
  /\ candidates = [c \in Ensures |-> {}]
  /\ interrupted = {}
  /\ pinned = [c \in Ensures |-> None]
  /\ said = [l \in Launchers |-> "none"]
  /\ told = [l \in Launchers |-> "none"]
  /\ learned = [c \in Ensures |-> Unseen]
  /\ draft = [l \in Launchers |-> None]
  /\ sent = [l \in Launchers |-> "none"]
  /\ left = {}
  /\ reply = [l \in Launchers |-> None]
  /\ holder = None
  /\ file = 0
  /\ files = 0
  /\ schema = FALSE
  /\ log = <<>>
  /\ finished = {}
  /\ canceled = {}
  /\ madeIn = [r \in Runs |-> 0]
  /\ seen = [c \in Ensures |-> [files |-> {}, events |-> 0]]

-----------------------------------------------------------------------------
(* The registry as a reader sees it, and the history it must continue.     *)

Creations == {i \in DOMAIN log : log[i].kind = "created"}
Created   == {log[i].run : i \in Creations}
Recorded(r) == \E i \in DOMAIN log : log[i].kind = "settled" /\ log[i].run = r

\* Mutant: the publication right after w is taken for one already seen.
FirstAfterNext(w) ==
  IF \E i \in Creations : i > w + 1
  THEN CHOOSE i \in Creations : i > w + 1 /\ \A j \in Creations : j > w + 1 => i <= j
  ELSE 0

\* The sequence number of the first publication after w, 0 when there is none.
FirstAfter(w) ==
  IF \E i \in Creations : i > w
  THEN CHOOSE i \in Creations : i > w /\ \A j \in Creations : j > w => i <= j
  ELSE 0

\* What a reader of the present file has seen; without a schema there is no
\* sequence to keep.
Now == [phase |-> IF schema THEN "complete" ELSE "bootstrap",
        file |-> file, greatest |-> IF schema THEN Len(log) ELSE 0]

\* Mutant: only the sequence is compared, not the file.
ContinuesAnyFile(h, n) ==
  h.phase = "complete" => n.phase = "complete" /\ h.greatest <= n.greatest

\* A checked history is neither replaced, reset nor regressed, as far as the
\* inode and the greatest sequence tell.
Continues(h, n) ==
  \/ h.phase = "unseen"
  \/ /\ h.phase = "bootstrap"
     /\ n.phase \in {"bootstrap", "complete"}
     /\ h.file = n.file
  \/ /\ h.phase = "complete"
     /\ n.phase = "complete"
     /\ h.file = n.file
     /\ h.greatest <= n.greatest

\* A read by somebody whose history is h, and the history after it.
Readable(h) == IF file = 0 THEN h.phase = "unseen" ELSE Continues(h, Now)
Advanced(h) == IF file = 0 THEN h ELSE Now

\* c, or its owner, has read the registry.
Sees(c) ==
  seen' = [seen EXCEPT ![c] =
    IF file = 0 THEN @
    ELSE [files  |-> @.files \cup {[number |-> files, inode |-> file]},
          events |-> IF @.events < Now.greatest THEN Now.greatest ELSE @.events]]

Matches(c, r) == Request[c] = Request[r]

\* Owner processes the host would find.
Alive(r) == owner[r] \notin {"none", "exited"}


-----------------------------------------------------------------------------
(* Enrollment.                                                             *)

\* A launcher ends with a result and what that says of the session it asked for.
Concludes(l, result, certainty) ==
  /\ launcher' = [launcher EXCEPT ![l] = "ended"]
  /\ said' = [said EXCEPT ![l] = result]
  /\ told' = [told EXCEPT ![l] = certainty]

\* The enrollment snapshot: unfinished runs and the frozen watermark.
EnrollRead(c) ==
  /\ launcher[c] = "idle"
  /\ launcher' = [launcher EXCEPT ![c] = "sampling"]
  /\ mark' = [mark EXCEPT ![c] = Len(log)]
  /\ hist' = [hist EXCEPT ![c] = Advanced(@)]
  /\ candidates' = [candidates EXCEPT ![c] = Created \ finished]
  /\ Sees(c)
  /\ UNCHANGED <<interrupted, pinned, said, told, channelVars, ownerVars, holder,
                 registryVars, canceled>>

\* The owners of those runs are looked for after the snapshot.
EnrollSample(c) ==
  LET live == {r \in candidates[c] : Alive(r)} IN
  /\ launcher[c] = "sampling"
  /\ candidates' = [candidates EXCEPT ![c] = {}]
  /\ \/ /\ Cardinality(live) > 1
        /\ Concludes(c, "corrupt", "not-requested")
        /\ UNCHANGED pinned
     \/ \E r \in live :
          /\ live = {r}
          /\ \/ /\ Matches(c, r)
                /\ pinned' = [pinned EXCEPT ![c] = r]
                /\ Concludes(c, "pinned", "not-requested")
             \/ /\ Concludes(c, IF Matches(c, r) THEN "timeout" ELSE "mismatch",
                         "not-requested")
                /\ UNCHANGED pinned
     \/ /\ live = {}
        /\ launcher' = [launcher EXCEPT ![c] = "seeking"]
        /\ UNCHANGED <<pinned, said, told>>
  /\ UNCHANGED <<mark, hist, interrupted, channelVars, ownerVars, holder, registryVars,
                 canceled, seen>>

-----------------------------------------------------------------------------
(* Launch and delivery of the request.                                     *)

\* The owner is spawned in a session of its own, with one end of the channel.
Spawn(l) ==
  /\ launcher[l] = IF l \in Ensures THEN "seeking" ELSE "idle"
  /\ launcher' = [launcher EXCEPT ![l] = "sending"]
  /\ owner' = [owner EXCEPT ![l] = "receive"]
  /\ sent' = [sent EXCEPT ![l] = "partial"]
  /\ UNCHANGED <<mark, hist, candidates, interrupted, pinned, said, told, learned, draft,
                 left, reply, holder, registryVars, canceled, seen>>

\* No channel or no process.
SpawnFails(l) ==
  /\ launcher[l] = IF l \in Ensures THEN "seeking" ELSE "idle"
  /\ Concludes(l, "failed", "not-requested")
  /\ UNCHANGED <<mark, hist, candidates, interrupted, pinned, channelVars, ownerVars,
                 holder, registryVars, canceled, seen>>

\* The last byte of the request frame is written.
Send(l) ==
  /\ launcher[l] = "sending"
  /\ owner[l] # "exited"
  /\ launcher' = [launcher EXCEPT ![l] = "waiting"]
  /\ sent' = [sent EXCEPT ![l] = "full"]
  /\ UNCHANGED <<mark, hist, candidates, interrupted, pinned, said, told, left, reply,
                 ownerVars, holder, registryVars, canceled, seen>>

\* Delivery fails, expires or is canceled: the owner is killed and reaped.
Incomplete(l) ==
  /\ launcher[l] = "sending"
  /\ owner' = [owner EXCEPT ![l] = "exited"]
  /\ left' = left \cup {l}
  /\ Concludes(l, "failed", "not-established")
  /\ UNCHANGED <<mark, hist, candidates, interrupted, pinned, learned, draft, sent,
                 reply, holder, registryVars, canceled, seen>>

-----------------------------------------------------------------------------
(* The reply, as an ensure takes it.                                       *)

Certainty(answer) == IF answer.kind = "established" THEN "established"
                                                   ELSE "not-established"

\* A complete reply; an expiry seen right after it still carries its certainty.
EnsureReceive(c) ==
  /\ launcher[c] = "waiting"
  /\ reply[c] # None
  /\ left' = left \cup {c}
  /\ \/ Concludes(c, "timeout", Certainty(reply[c]))
     \/ /\ reply[c].kind = "rejected"
        /\ Concludes(c, "rejected", Certainty(reply[c]))
     \/ /\ reply[c].kind # "rejected"
        /\ launcher' = [launcher EXCEPT ![c] = "selecting"]
        /\ UNCHANGED <<said, told>>
  /\ UNCHANGED <<mark, hist, candidates, interrupted, pinned, sent, reply, ownerVars,
                 holder, registryVars, canceled, seen>>

\* End of the channel before a complete reply.
Eof(l) ==
  /\ launcher[l] = "waiting"
  /\ owner[l] = "exited"
  /\ reply[l] = None
  /\ left' = left \cup {l}
  /\ Concludes(l, IF l \in interrupted THEN "interrupted" ELSE "uncertain", "uncertain")
  /\ UNCHANGED <<mark, hist, candidates, interrupted, pinned, sent, reply, ownerVars,
                 holder, registryVars, canceled, seen>>

\* Mutant: the certainty of the delivery is kept while waiting for the reply.
ExpiresAsUndelivered(c) ==
  /\ launcher[c] = "waiting"
  /\ Concludes(c, "timeout", "not-established")
  /\ left' = left \cup {c}
  /\ UNCHANGED <<mark, hist, candidates, interrupted, pinned, sent, reply, ownerVars,
                 holder, registryVars, canceled, seen>>

\* The observation budget is spent, or the caller was signalled.
EnsureExpires(c) ==
  /\ \/ /\ launcher[c] = "idle"
        /\ Concludes(c, "timeout", "not-requested")
     \/ /\ launcher[c] = "waiting"
        /\ Concludes(c, "timeout", "uncertain")
     \/ /\ launcher[c] = "selecting"
        /\ Concludes(c, "timeout", Certainty(reply[c]))
  /\ left' = IF sent[c] = "full" THEN left \cup {c} ELSE left
  /\ UNCHANGED <<mark, hist, candidates, interrupted, pinned, sent, reply, ownerVars,
                 holder, registryVars, canceled, seen>>

\* The owner's history joins the launcher's, the registry is read once more,
\* and the reply must name its first publication.
SelectReply(c) ==
  LET answer == reply[c]
      merged == answer.hist
      first  == FirstAfter(mark[c]) IN
  /\ launcher[c] = "selecting"
  /\ Sees(c)
  /\ IF /\ Continues(hist[c], merged)
        /\ Readable(merged)
        /\ first # 0
        /\ log[first].run = answer.run
        /\ answer.kind = "existing" => first = answer.seq
     THEN /\ hist' = [hist EXCEPT ![c] = Advanced(merged)]
          /\ IF Matches(c, answer.run)
             THEN /\ pinned' = [pinned EXCEPT ![c] = answer.run]
                  /\ Concludes(c, "pinned", Certainty(answer))
             ELSE /\ Concludes(c, "mismatch", Certainty(answer))
                  /\ UNCHANGED pinned
     ELSE /\ Concludes(c, "corrupt", Certainty(answer))
          /\ UNCHANGED <<hist, pinned>>
  /\ UNCHANGED <<mark, candidates, interrupted, channelVars, ownerVars, holder,
                 registryVars, canceled>>

-----------------------------------------------------------------------------
(* The launcher of run --daemon.                                           *)

\* The control endpoint of run r has a reader.
Listening(r) == owner[r] \in {"session", "finalize"}

\* A signal half-closes the channel; the launcher keeps reading for a while.
DaemonInterrupt(d) ==
  /\ launcher[d] = "waiting"
  /\ d \notin interrupted
  /\ interrupted' = interrupted \cup {d}
  /\ left' = left \cup {d}
  /\ UNCHANGED <<launcher, mark, hist, candidates, pinned, said, told, sent, reply,
                 ownerVars, holder, registryVars, canceled, seen>>

\* A complete reply; if a signal came first, an established session is canceled.
DaemonReceive(d) ==
  /\ launcher[d] = "waiting"
  /\ reply[d] # None
  /\ left' = left \cup {d}
  /\ \/ /\ reply[d].kind = "rejected"
        /\ Concludes(d, "rejected", "not-established")
        /\ UNCHANGED canceled
     \/ /\ reply[d].kind = "established"
        /\ d \notin interrupted
        /\ Concludes(d, "established", "established")
        /\ UNCHANGED canceled
     \/ /\ reply[d].kind = "established"
        /\ Listening(d)
        /\ Concludes(d, "canceled", "established")
        /\ canceled' = canceled \cup {d}
     \/ /\ reply[d].kind = "established"
        /\ ~Listening(d)
        /\ Concludes(d, "undelivered", "established")
        /\ UNCHANGED canceled
  /\ UNCHANGED <<mark, hist, candidates, interrupted, pinned, sent, reply, ownerVars,
                 holder, registryVars, seen>>

\* The reply budget, or the grace after a signal, is over.
DaemonGivesUp(d) ==
  /\ launcher[d] = "waiting"
  /\ Concludes(d, IF d \in interrupted THEN "interrupted" ELSE "uncertain", "uncertain")
  /\ left' = left \cup {d}
  /\ UNCHANGED <<mark, hist, candidates, interrupted, pinned, sent, reply, ownerVars,
                 holder, registryVars, canceled, seen>>

\* A launcher is killed: the host closes its end of the channel.
LauncherDies(l) ==
  /\ launcher[l] \in {"sending", "waiting"}
  /\ launcher' = [launcher EXCEPT ![l] = "dead"]
  /\ left' = left \cup {l}
  /\ UNCHANGED <<mark, hist, candidates, interrupted, pinned, said, told, sent, reply,
                 ownerVars, holder, registryVars, canceled, seen>>

-----------------------------------------------------------------------------
(* The owner before it holds the slot.                                     *)

Goes(r, to) == owner' = [owner EXCEPT ![r] = to]

Keeps == UNCHANGED <<launcherVars, channelVars, canceled>>

Established(r, h) == [kind |-> "established", why |-> "none", run |-> r, seq |-> 0,
                      hist |-> h]
Existing(i, h) == [kind |-> "existing", why |-> "none", run |-> log[i].run, seq |-> i,
                   hist |-> h]
Rejected(r, why) == [kind |-> "rejected", why |-> why, run |-> r, seq |-> 0,
                     hist |-> Unseen]

\* What owner r of a launcher writes next; a foreground run has nobody to tell.
Drafts(r, answer) == draft' = IF r \in Launchers THEN [draft EXCEPT ![r] = answer]
                                                 ELSE draft

\* An error before the commit: registry and guard close, then the reply.
Rejects(r, why) ==
  /\ Goes(r, IF r \in Launchers THEN "replying" ELSE "exited")
  /\ Drafts(r, Rejected(r, why))
  /\ holder' = IF holder = r THEN None ELSE holder

\* Mutant: the channel is never looked at.
AlwaysWanted(r) == TRUE

\* The launcher still keeps its end open.
Wanted(r) == r \notin left

\* The request arrives and is admitted; a refusal of what it names is
\* PrecommitFails.
ReceiveRequest(r) ==
  /\ owner[r] = "receive"
  /\ sent[r] = "full"
  /\ Goes(r, IF r \in Ensures THEN "resume" ELSE "acquire")
  /\ Keeps
  /\ UNCHANGED <<learned, draft, holder, registryVars, seen>>

\* The frame is late, ends early or cannot be decoded.
ReceiveFails(r) ==
  /\ owner[r] = "receive"
  /\ Goes(r, "exited")
  /\ Keeps
  /\ UNCHANGED <<learned, draft, holder, registryVars, seen>>

\* The cursor of the request is continued by what the owner reads itself.
Resume(r) ==
  /\ owner[r] = "resume"
  /\ Wanted(r)
  /\ Sees(r)
  /\ IF Readable(hist[r])
     THEN /\ learned' = [learned EXCEPT ![r] = Advanced(hist[r])]
          /\ Goes(r, "seek")
          /\ UNCHANGED <<draft, holder>>
     ELSE /\ Rejects(r, "corrupt")
          /\ UNCHANGED learned
  /\ Keeps
  /\ UNCHANGED registryVars

\* Mutant: an owner waits for the lock and does not look for publications.
SeekLockOnly(r) ==
  /\ owner[r] = "seek"
  /\ Wanted(r)
  /\ Goes(r, "try")
  /\ Keeps
  /\ UNCHANGED <<learned, draft, holder, registryVars, seen>>

\* A read without authority: a publication is selected, however it ended.
Seek(r) ==
  LET first == FirstAfter(mark[r]) IN
  /\ owner[r] = "seek"
  /\ Wanted(r)
  /\ Sees(r)
  /\ IF Readable(learned[r])
     THEN /\ learned' = [learned EXCEPT ![r] = Advanced(@)]
          /\ \/ /\ first = 0
                /\ Goes(r, "try")
                /\ UNCHANGED <<draft, holder>>
             \/ /\ first # 0
                /\ Matches(r, log[first].run)
                /\ Goes(r, "replying")
                /\ Drafts(r, Existing(first, Advanced(learned[r])))
                /\ UNCHANGED holder
             \/ /\ first # 0
                /\ ~Matches(r, log[first].run)
                /\ Rejects(r, "mismatch")
     ELSE /\ Rejects(r, "corrupt")
          /\ UNCHANGED learned
  /\ Keeps
  /\ UNCHANGED registryVars

\* The lock is tried and not waited for.
Try(r) ==
  /\ owner[r] = "try"
  /\ Goes(r, IF holder = None THEN "guarded" ELSE "seek")
  /\ holder' = IF holder = None THEN r ELSE holder
  /\ Keeps
  /\ UNCHANGED <<learned, draft, registryVars, seen>>

\* Mutant: what was read before the lock is good enough.
RecheckSkipped(r) ==
  /\ owner[r] = "guarded"
  /\ Wanted(r)
  /\ Goes(r, "open")
  /\ Keeps
  /\ UNCHANGED <<learned, draft, holder, registryVars, seen>>

\* The same read under the lock: a publication found now has released it.
Recheck(r) ==
  LET first == FirstAfter(mark[r]) IN
  /\ owner[r] = "guarded"
  /\ Wanted(r)
  /\ Sees(r)
  /\ IF Readable(learned[r])
     THEN /\ learned' = [learned EXCEPT ![r] = Advanced(@)]
          /\ \/ /\ first = 0
                /\ Goes(r, "open")
                /\ UNCHANGED <<draft, holder>>
             \/ /\ first # 0
                /\ Rejects(r, IF Matches(r, log[first].run) THEN "failed" ELSE "mismatch")
     ELSE /\ Rejects(r, "corrupt")
          /\ UNCHANGED learned
  /\ Keeps
  /\ UNCHANGED registryVars

\* An ordinary run, in the foreground or not, is refused a busy slot.
Acquire(r) ==
  /\ owner[r] = "acquire"
  /\ Wanted(r)
  /\ IF holder = None
     THEN /\ holder' = r
          /\ Goes(r, "open")
          /\ UNCHANGED draft
     ELSE Rejects(r, "failed")
  /\ Keeps
  /\ UNCHANGED <<learned, registryVars, seen>>

-----------------------------------------------------------------------------
(* The owner that holds the slot, up to the commit of its run.             *)

Unfinished == Created \ finished
Event(kind, r) == [kind |-> kind, run |-> r]

\* The writer opens the registry file, or makes an empty one with a new inode or
\* that of a file which was removed; inodes are named as they appear.
Open(r) ==
  /\ owner[r] = "open"
  /\ Goes(r, "schema")
  /\ file' \in IF file = 0 THEN 1..(files + 1) ELSE {file}
  /\ files' = IF file = 0 THEN files + 1 ELSE files
  /\ Keeps
  /\ UNCHANGED <<learned, draft, holder, schema, log, finished, madeIn, seen>>

InitializeSchema(r) ==
  /\ owner[r] = "schema"
  /\ Goes(r, "recover")
  /\ schema' = TRUE
  /\ Keeps
  /\ UNCHANGED <<learned, draft, holder, file, files, log, finished, madeIn, seen>>

\* Predecessors without an outcome are interrupted, and all are completed.
Recover(r) ==
  LET unknown == {Event("settled", p) : p \in {q \in Unfinished : ~Recorded(q)}} IN
  /\ owner[r] = "recover"
  /\ Wanted(r)
  /\ Goes(r, "prepare")
  /\ log' = log \o SetToSeq(unknown)
  /\ finished' = finished \cup Unfinished
  /\ Keeps
  /\ UNCHANGED <<learned, draft, holder, file, files, schema, madeIn, seen>>

\* State, evidence directory, control endpoint and diagnostics.
Prepare(r) ==
  /\ owner[r] = "prepare"
  /\ Wanted(r)
  /\ Goes(r, "check")
  /\ Keeps
  /\ UNCHANGED <<learned, draft, holder, registryVars, seen>>

\* The last look at the channel before the commit.
Check(r) ==
  /\ owner[r] = "check"
  /\ Wanted(r)
  /\ Goes(r, "publish")
  /\ Keeps
  /\ UNCHANGED <<learned, draft, holder, registryVars, seen>>

\* The shared cursor after the creation of r, checked while it can roll back.
IsFirstPublication(r) ==
  /\ Continues(learned[r], [Now EXCEPT !.greatest = @ + 1])
  /\ FirstAfter(mark[r]) = 0
  /\ Len(log) + 1 > mark[r]

\* The run row and its creation event; from here on nothing rejects.
Publish(r) ==
  /\ owner[r] = "publish"
  /\ IF r \in Ensures => IsFirstPublication(r)
     THEN /\ log' = Append(log, Event("created", r))
          /\ madeIn' = [madeIn EXCEPT ![r] = file]
          /\ learned' = IF r \in Ensures
                        THEN [learned EXCEPT ![r] = [Now EXCEPT !.greatest = @ + 1]]
                        ELSE learned
          /\ Goes(r, IF r \in Launchers THEN "replying" ELSE "session")
          /\ Drafts(r, Established(r, IF r \in Ensures THEN learned'[r] ELSE Unseen))
          /\ UNCHANGED holder
     ELSE /\ Rejects(r, "corrupt")
          /\ UNCHANGED <<learned, log, madeIn>>
  /\ Keeps
  /\ UNCHANGED <<file, files, schema, finished, seen>>

\* Any other error on the way: admission, planning, the writer, recovery, state.
PrecommitFails(r) ==
  /\ owner[r] \in (WaitPCs \ {"receive"}) \cup GuardPCs
  /\ Rejects(r, "failed")
  /\ Keeps
  /\ UNCHANGED <<learned, registryVars, seen>>

\* A check of the channel finds it closed.
Abandoned(r) ==
  /\ owner[r] \in {"resume", "seek", "guarded", "acquire", "recover", "prepare", "check"}
  /\ ~Wanted(r)
  /\ Rejects(r, "canceled")
  /\ Keeps
  /\ UNCHANGED <<learned, registryVars, seen>>

-----------------------------------------------------------------------------
(* The reply, and the session after it.                                    *)

AfterReply(r) == IF draft[r].kind = "established" THEN "session" ELSE "exited"

WriteReply(r) ==
  /\ owner[r] = "replying"
  /\ reply' = [reply EXCEPT ![r] = draft[r]]
  /\ draft' = [draft EXCEPT ![r] = None]
  /\ Goes(r, AfterReply(r))
  /\ UNCHANGED <<launcherVars, sent, left, learned, holder, registryVars, canceled, seen>>

\* A reply that cannot be written cancels nothing.
LoseReply(r) ==
  /\ owner[r] = "replying"
  /\ draft' = [draft EXCEPT ![r] = None]
  /\ Goes(r, AfterReply(r))
  /\ Keeps
  /\ UNCHANGED <<learned, holder, registryVars, seen>>

\* Execution ends, by itself or because it is canceled.
Settle(r) ==
  /\ owner[r] = "session"
  /\ log' = Append(log, Event("settled", r))
  /\ Goes(r, "finalize")
  /\ Keeps
  /\ UNCHANGED <<learned, draft, holder, file, files, schema, finished, madeIn, seen>>

\* Finalization may fail and leave the run unfinished.
Finalize(r) ==
  /\ owner[r] = "finalize"
  /\ finished' \in {finished, finished \cup {r}}
  /\ Goes(r, "close")
  /\ Keeps
  /\ UNCHANGED <<learned, draft, holder, file, files, schema, log, madeIn, seen>>

\* The slot is released; the process goes on delivering output.
Close(r) ==
  /\ owner[r] = "close"
  /\ holder' = None
  /\ Goes(r, "linger")
  /\ Keeps
  /\ UNCHANGED <<learned, draft, registryVars, seen>>

Exit(r) ==
  /\ owner[r] = "linger"
  /\ Goes(r, "exited")
  /\ Keeps
  /\ UNCHANGED <<learned, draft, holder, registryVars, seen>>

\* An owner is killed: its lock goes, its rows stay.
Crash(r) ==
  /\ owner[r] \notin {"none", "receive", "exited"}
  /\ Goes(r, "exited")
  /\ holder' = IF holder = r THEN None ELSE holder
  /\ draft' = IF r \in Launchers THEN [draft EXCEPT ![r] = None] ELSE draft
  /\ Keeps
  /\ UNCHANGED <<learned, registryVars, seen>>

\* Other programs remove the registry of a slot nobody holds.
RemoveRegistry ==
  /\ holder = None
  /\ file # 0
  /\ files < MaxFiles
  /\ file' = 0
  /\ schema' = FALSE
  /\ log' = <<>>
  /\ finished' = {}
  /\ UNCHANGED <<launcherVars, channelVars, ownerVars, holder, files, madeIn, canceled,
                 seen>>

-----------------------------------------------------------------------------
EnsureStep(c) ==
  \/ EnrollRead(c) \/ EnrollSample(c)
  \/ EnsureReceive(c) \/ SelectReply(c) \/ EnsureExpires(c)

DaemonStep(d) == DaemonInterrupt(d) \/ DaemonReceive(d) \/ DaemonGivesUp(d)

LauncherStep(l) ==
  \/ Spawn(l) \/ SpawnFails(l) \/ Send(l) \/ Incomplete(l)
  \/ Eof(l) \/ LauncherDies(l)

SharedStep(r) == Resume(r) \/ Seek(r) \/ Try(r) \/ Recheck(r)

DetachedStep(r) ==
  \/ ReceiveRequest(r) \/ ReceiveFails(r)
  \/ Abandoned(r) \/ WriteReply(r) \/ LoseReply(r)

OwnerStep(r) ==
  \/ Open(r) \/ InitializeSchema(r) \/ Recover(r) \/ Prepare(r) \/ Check(r) \/ Publish(r)
  \/ PrecommitFails(r)
  \/ Settle(r) \/ Finalize(r) \/ Close(r) \/ Exit(r) \/ Crash(r)

Next ==
  \/ \E c \in Ensures : EnsureStep(c) \/ SharedStep(c)
  \/ \E d \in Daemons : DaemonStep(d)
  \/ \E l \in Launchers : LauncherStep(l) \/ DetachedStep(l)
  \/ \E r \in Daemons \cup Foregrounds : Acquire(r)
  \/ \E r \in Runs : OwnerStep(r)
  \/ RemoveRegistry

Spec == Init /\ [][Next]_vars

\* Every process that can take a step takes one in the end, and the host
\* answers; nothing makes a session end, a budget expire or a command start.
Proceeds(r) ==
  \/ Open(r) \/ InitializeSchema(r) \/ Recover(r) \/ Prepare(r) \/ Check(r) \/ Publish(r)
  \/ Finalize(r) \/ Close(r) \/ (r \in canceled /\ Settle(r))

Fairness ==
  /\ \A c \in Ensures :
       /\ WF_vars(EnrollSample(c))
       /\ WF_vars(EnsureReceive(c) \/ SelectReply(c))
       /\ WF_vars(SharedStep(c))
  /\ \A l \in Launchers :
       /\ WF_vars(Spawn(l) \/ Send(l) \/ (owner[l] = "exited" /\ Incomplete(l)))
       /\ WF_vars(Eof(l))
       /\ WF_vars(ReceiveRequest(l) \/ ReceiveFails(l))
       /\ WF_vars(Abandoned(l) \/ WriteReply(l))
       /\ WF_vars(DaemonReceive(l) /\ l \in Daemons)
  /\ \A r \in Daemons \cup Foregrounds : WF_vars(Acquire(r))
  /\ \A r \in Runs : WF_vars(Proceeds(r))

FairSpec == Spec /\ Fairness

-----------------------------------------------------------------------------
(* Properties.                                                             *)

\* What a launcher is told about the session it asked for stays true: one
\* reported as not established is never published, whatever its owner was
\* doing, and one reported as established has been (launch_shared,
\* shared_exchange and launch against Establishment).
CertaintyIsTrue ==
  \A l \in Launchers :
    /\ told[l] \in {"not-requested", "not-established"} => madeIn[l] = 0
    /\ told[l] = "established" => madeIn[l] # 0

\* No reader takes the registry for corrupt unless somebody removed it: the
\* checks of acquire_shared, after_creation and select_reply agree with every
\* order of publications, deaths and recoveries.
NoFalseCorruption ==
  /\ \A l \in Launchers : said[l] # "corrupt"
  /\ \A l \in Launchers : draft[l] # None => draft[l].why # "corrupt"
  /\ \A l \in Launchers : reply[l] # None => reply[l].why # "corrupt"

\* The file may be removed and made anew between any two reads.  The run an
\* ensure names was published in a file with the inode of every registry file
\* that it or its owner has read, and when it takes the run from a reply, the log
\* is no shorter than anything they found: a file with another inode is noticed,
\* and one that got the old inode as long as its log is shorter (History::advance,
\* FileIdentity).
PinnedKeepsLineage ==
  [][\A c \in Ensures :
       pinned[c] = None /\ pinned'[c] # None =>
         /\ \A f \in seen'[c].files : f.inode = madeIn[pinned'[c]]
         /\ launcher[c] = "selecting" => seen'[c].events <= Len(log)]_vars

\* The sessions of the registry with their sequence numbers.
Publications == {[run |-> log[i].run, seq |-> i] : i \in Creations}

\* An ensure names the first session published since it enrolled, or the one
\* current then; and its owner publishes only while there is none.
Promise == INSTANCE FirstPublication WITH
  Askers  <- Ensures,
  clock   <- Len(log),
  created <- Publications,
  since   <- mark,
  answer  <- pinned

KeepsPromise == Promise!FirstSpec

\* A launcher that is gone before its owner's last look at the channel leaves no
\* session behind: the owner ends unpublished, though the slot may be held for
\* ever by somebody else (check_abandonment in execute_owned, acquire_shared).
AbandonedOwnerEnds ==
  \A l \in Launchers :
    (l \in left /\ owner[l] \in (WaitPCs \cup GuardPCs) \ {"publish"})
      ~> (owner[l] = "exited" /\ madeIn[l] = 0)

\* The registry was replaced between two reads, and nothing in it shows that.
Deceived(c) == \E f, g \in seen[c].files : f # g /\ f.inode = g.inode

\* An ensure that seeks a session is answered without its budget, although the
\* sessions it meets may run for ever; only a lost reply leaves it waiting, or a
\* log made anew under the old inode, in which its watermark is another event.
EnsureIsAnswered ==
  \A c \in Ensures :
    (launcher[c] = "seeking")
      ~> (\/ launcher[c] \in {"ended", "dead"}
          \/ madeIn[c] # 0 /\ reply[c] = None /\ owner[c] \notin {"publish", "replying"}
          \/ Deceived(c))
=============================================================================
