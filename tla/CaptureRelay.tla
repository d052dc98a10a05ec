------------------------------ MODULE CaptureRelay ------------------------------
(***************************************************************************)
(* The capture of one process's output (redaction.rs): a worker thread per *)
(* stream reads what the process writes, in chunks as they come, replaces  *)
(* the secrets in it and writes the log file; the owner polls the workers  *)
(* and settles both under one deadline.                                    *)
(*                                                                         *)
(* Abstractions.                                                           *)
(*  - Bytes are numbers, the token that stands for a secret is one symbol. *)
(*    Resolution leaves no empty secret (normalize_secret_value).          *)
(*  - A process writes byte by byte; the bytes it was stopped before are   *)
(*    not in its output.  A read takes what is there, up to Buffer bytes.  *)
(*  - An interrupted poll or a spurious wake is a poll that comes later; a *)
(*    poll that finds nothing is no step.                                  *)
(*  - A worker that was joined early keeps its result (check): it is the   *)
(*    one that joining it at the end would give.                           *)
(***************************************************************************)
EXTENDS Naturals, SequencesExt

CONSTANTS
  Secrets, \* the sets of resolved secrets that a redactor may have
  Outputs, \* what a process may write to its streams
  Buffer   \* bytes that one read takes at most

Streams == {"stdout", "stderr"}
Token == 0
\* What a process writes and a secret is made of; only the redactor writes Token.
Bytes == Nat \ {Token}

ASSUME RelayAssumption ==
  /\ Secrets \subseteq SUBSET (Seq(Bytes) \ {<<>>})
  /\ Outputs \subseteq [Streams -> Seq(Bytes)]
  /\ Buffer \in Nat \ {0}

VARIABLES
  patterns, \* the redactor's secrets
  output,   \* output[s]: all the process writes to s
  wrote,    \* how much of it was written
  open,     \* streams with a writer
  got,      \* how much of it the worker has read
  used,     \* how much of that it has decided; the rest is pending
  file,     \* the log file
  worker,   \* the step of the worker
  control,  \* the deadline in its mailbox: "none", "later", "now"
  late,     \* the later deadline has passed
  owner,    \* the step of the owner
  outcome   \* what shutdown returned

source == <<output, wrote, open>>
relay  == <<got, used, file, worker>>
keeper == <<control, owner, outcome>>
vars   == <<patterns, source, relay, keeper, late>>

Ended == {"eof", "incomplete", "failed"}
TypeOK ==
  /\ patterns \in Secrets
  /\ output \in Outputs
  /\ wrote \in [Streams -> Nat] /\ got \in [Streams -> Nat] /\ used \in [Streams -> Nat]
  /\ \A s \in Streams : used[s] <= got[s] /\ got[s] <= wrote[s] /\ wrote[s] <= Len(output[s])
  /\ file \in [Streams -> Seq(Nat)]
  /\ open \subseteq Streams
  /\ worker \in [Streams -> {"none", "poll", "recheck", "read"} \cup Ended]
  /\ control \in [Streams -> {"none", "later", "now"}]
  /\ late \in BOOLEAN
  /\ owner \in {"stdout", "stderr", "failed", "owning", "asking", "joining", "dropping", "done"}
  /\ outcome \in {"none", "complete", "incomplete", "unknown"}

Init ==
  /\ patterns \in Secrets
  /\ output \in Outputs
  /\ wrote = [s \in Streams |-> 0] /\ open = {}
  /\ got = [s \in Streams |-> 0] /\ used = [s \in Streams |-> 0]
  /\ file = [s \in Streams |-> <<>>]
  /\ worker = [s \in Streams |-> "none"]
  /\ control = [s \in Streams |-> "none"] /\ late = FALSE
  /\ owner = "stdout" /\ outcome = "none"

(***************************************************************************)
(* The redactor.                                                           *)
(***************************************************************************)

From(input, i) == SubSeq(input, i, Len(input))
Longest(secrets) == CHOOSE p \in secrets : \A q \in secrets : Len(q) <= Len(p)

\* A bug: a position where a secret is complete is decided, also if a longer one may be.
UndecidedIncomplete(input) ==
  LET undecided == {i \in DOMAIN input : /\ \E p \in patterns : IsStrictPrefix(From(input, i), p)
                                         /\ ~ \E p \in patterns : IsPrefix(p, From(input, i))}
  IN IF undecided = {} THEN Len(input) ELSE Min(undecided) - 1

\* The bytes before the first position from which a longer input could be a secret.
UndecidedStart(input) ==
  LET undecided == {i \in DOMAIN input : \E p \in patterns : IsStrictPrefix(From(input, i), p)}
  IN IF undecided = {} THEN Len(input) ELSE Min(undecided) - 1

\* From left to right the longest secret that is there, up to limit; a secret may end after.
Scan(input, limit) ==
  LET scan[consumed \in 0..Len(input)] ==
        LET here == {p \in patterns : IsPrefix(p, From(input, consumed + 1))}
            step == IF here = {} THEN 1 ELSE Len(Longest(here))
            rest == scan[consumed + step]
        IN IF consumed >= limit THEN [out |-> <<>>, used |-> consumed]
           ELSE [out  |-> <<IF here = {} THEN input[consumed + 1] ELSE Token>> \o rest.out,
                 used |-> rest.used]
  IN scan[0]

RedactAvailable(pending) == Scan(pending, UndecidedStart(pending))
RedactBytes(pending) == Scan(pending, Len(pending))

(***************************************************************************)
(* The process.                                                            *)
(***************************************************************************)

\* It has both streams from the owner, which keeps no writer.
Spawned == owner \notin {"stdout", "stderr", "failed"}

Write(s) ==
  /\ Spawned /\ s \in open /\ wrote[s] < Len(output[s])
  /\ wrote' = [wrote EXCEPT ![s] = @ + 1]
  /\ UNCHANGED <<patterns, output, open, relay, keeper, late>>

\* The last writer of the stream is gone: the process, or what it left behind.
Close(s) ==
  /\ Spawned /\ s \in open /\ wrote[s] = Len(output[s])
  /\ open' = open \ {s}
  /\ UNCHANGED <<patterns, output, wrote, relay, keeper, late>>

(***************************************************************************)
(* A worker.                                                               *)
(***************************************************************************)

Works(s, from, to) ==
  /\ worker[s] = from
  /\ worker' = [worker EXCEPT ![s] = to]
  /\ UNCHANGED <<patterns, source, keeper, late>>

Aborted(s) == control[s] = "now" \/ (control[s] = "later" /\ late)
Pending(s, upto) == SubSeq(output[s], used[s] + 1, upto)

Readable(s) == got[s] < wrote[s] \/ s \notin open

\* A bug: the poll waits for the process, and the mailbox is looked at when it wrote.
PollPatiently(s) ==
  /\ Readable(s)
  /\ Works(s, "poll", IF Aborted(s) THEN "incomplete" ELSE "recheck")
  /\ UNCHANGED <<got, used, file>>

Poll(s) ==
  /\ \/ Aborted(s) /\ Works(s, "poll", "incomplete")
     \/ ~Aborted(s) /\ Readable(s) /\ Works(s, "poll", "recheck")
  /\ UNCHANGED <<got, used, file>>

\* The deadline that passed meanwhile wins over what is readable, an end included.
Recheck(s) ==
  /\ Works(s, "recheck", IF Aborted(s) THEN "incomplete" ELSE "read")
  /\ UNCHANGED <<got, used, file>>

Read(s) ==
  LET upto  == Min({wrote[s], got[s] + Buffer})
      ready == RedactAvailable(Pending(s, upto))
  IN /\ got[s] < wrote[s]
     /\ Works(s, "read", "poll")
     /\ got' = [got EXCEPT ![s] = upto]
     /\ used' = [used EXCEPT ![s] = @ + ready.used]
     /\ file' = [file EXCEPT ![s] = @ \o ready.out]

\* The pending tail is decided by the end of the stream.
Finish(s) ==
  LET last == RedactBytes(Pending(s, got[s]))
  IN /\ got[s] = wrote[s] /\ s \notin open
     /\ Works(s, "read", "eof")
     /\ used' = [used EXCEPT ![s] = got[s]]
     /\ file' = [file EXCEPT ![s] = @ \o last.out]
     /\ UNCHANGED got

\* A poll, a read, or a write fails, and a write may leave a part of its bytes.
Fail(s) ==
  \/ /\ \E from \in {"poll", "read"} : Works(s, from, "failed")
     /\ UNCHANGED <<got, used, file>>
  \/ LET upto  == Min({wrote[s], got[s] + Buffer})
         ready == IF got[s] < wrote[s] THEN RedactAvailable(Pending(s, upto)).out
                                       ELSE RedactBytes(Pending(s, upto)).out
     IN /\ Readable(s)
        /\ Works(s, "read", "failed")
        /\ \E n \in 0..Len(ready) : file' = [file EXCEPT ![s] = @ \o SubSeq(ready, 1, n)]
        /\ UNCHANGED <<got, used>>

(***************************************************************************)
(* The owner.                                                              *)
(***************************************************************************)

Owner(from, to) ==
  /\ owner = from /\ owner' = to
  /\ UNCHANGED <<patterns, output, wrote, got, used, file, late>>

\* A pipe, a new file and a thread.
CreateStdout ==
  /\ Owner("stdout", "stderr")
  /\ open' = {"stdout"} /\ worker' = [worker EXCEPT !["stdout"] = "poll"]
  /\ UNCHANGED <<control, outcome>>

CreateStderr ==
  /\ Owner("stderr", "owning")
  /\ open' = Streams /\ worker' = [worker EXCEPT !["stderr"] = "poll"]
  /\ UNCHANGED <<control, outcome>>

\* The only writer of the first stream is dropped, and its worker settled.
CreateFails ==
  /\ \/ Owner("stdout", "done") /\ UNCHANGED control
     \/ Owner("stderr", "failed") /\ control' = [control EXCEPT !["stdout"] = "later"]
  /\ open' = {}
  /\ UNCHANGED <<worker, outcome>>

CreateFailed ==
  /\ Owner("failed", "done")
  /\ worker["stdout"] \in Ended
  /\ UNCHANGED <<open, worker, control, outcome>>

\* Both get the deadline before either is joined.
AskStdout ==
  /\ Owner("owning", "asking")
  /\ control' = [control EXCEPT !["stdout"] = "later"]
  /\ UNCHANGED <<open, worker, outcome>>

AskStderr ==
  /\ Owner("asking", "joining")
  /\ control' = [control EXCEPT !["stderr"] = "later"]
  /\ UNCHANGED <<open, worker, outcome>>

Result(s) == CASE worker[s] = "eof" -> 1 [] worker[s] = "incomplete" -> 2 [] worker[s] = "failed" -> 3
Verdicts == <<"complete", "incomplete", "unknown">>

\* A bug: one complete stream is enough.
JoinBetter ==
  /\ Owner("joining", "done")
  /\ \A s \in Streams : worker[s] \in Ended
  /\ outcome' = Verdicts[Min({Result(s) : s \in Streams})]
  /\ UNCHANGED <<open, worker, control>>

\* The worse of the two results.
Join ==
  /\ Owner("joining", "done")
  /\ \A s \in Streams : worker[s] \in Ended
  /\ outcome' = Verdicts[Max({Result(s) : s \in Streams})]
  /\ UNCHANGED <<open, worker, control>>

\* Relays that are given up are aborted and joined one after the other.
Drop ==
  /\ \/ Owner("owning", "dropping") /\ control' = [control EXCEPT !["stdout"] = "now"]
     \/ /\ Owner("dropping", "dropping") /\ worker["stdout"] \in Ended /\ control["stderr"] = "none"
        /\ control' = [control EXCEPT !["stderr"] = "now"]
     \/ /\ Owner("dropping", "done") /\ worker["stderr"] \in Ended /\ control["stderr"] = "now"
        /\ UNCHANGED control
  /\ UNCHANGED <<open, worker, outcome>>

Expire ==
  /\ \E s \in Streams : control[s] = "later"
  /\ ~late /\ late' = TRUE
  /\ UNCHANGED <<patterns, source, relay, keeper>>

Settles == CreateFailed \/ AskStderr \/ Join \/ (owner = "dropping" /\ Drop)

Work(s) == Poll(s) \/ Recheck(s) \/ Read(s) \/ Finish(s) \/ Fail(s)

Next ==
  \/ CreateStdout \/ CreateStderr \/ CreateFails \/ CreateFailed
  \/ AskStdout \/ AskStderr \/ Join \/ Drop
  \/ \E s \in Streams : Write(s) \/ Close(s) \/ Work(s)
  \/ Expire

Spec == Init /\ [][Next]_vars

\* Threads run and time passes: a poll has a timeout of its own.  Nothing makes
\* a call fail, a write to the file return, or a process write or close its streams.
FairSpec ==
  /\ Spec /\ WF_vars(Settles) /\ WF_vars(Expire)
  /\ \A s \in Streams : WF_vars(Poll(s)) /\ WF_vars(Recheck(s))

(***************************************************************************)
(* Properties.                                                             *)
(***************************************************************************)

\* The output with a token for each secret in it.  A secret starts where one is
\* to be seen, unless inside one that starts before; the longest one counts.
Replaced(secrets, input) ==
  LET Here(i)       == {p \in secrets : IsPrefix(p, From(input, i))}
      Inside(i, S)  == \E j \in S : j < i /\ i < j + Len(Longest(Here(j)))
      starts == CHOOSE S \in SUBSET DOMAIN input :
                  \A i \in DOMAIN input : i \in S <=> Here(i) # {} /\ ~Inside(i, S)
  IN FlattenSeq([i \in DOMAIN input |->
       IF i \in starts THEN <<Token>> ELSE IF Inside(i, starts) THEN <<>> ELSE <<input[i]>>])

Redactions == [secrets \in Secrets |-> [o \in Outputs |-> [s \in Streams |-> Replaced(secrets, o[s])]]]
Redacted(s) == Redactions[patterns][output][s]

\* A log file is at every moment the beginning of the redacted whole, however
\* the output was cut into chunks, whether the relay is cut short by a deadline,
\* an error in the middle of a write or a failed construction, and whatever
\* comes next: no byte is written that a later one could still make part of a
\* secret, and none is lost before the end (redact_available).
RetainedIsRedacted == \A s \in Streams : IsPrefix(file[s], Redacted(s))

\* A capture that is called complete has every byte of both streams, and all
\* writers are gone; incomplete means that a deadline passed and nothing
\* failed, and what failed is never called anything but unknown
\* (RedactedLogRelays::shutdown, checked_join).
OutcomeIsTrue ==
  /\ outcome = "complete" =>
       open = {} /\ \A s \in Streams : wrote[s] = Len(output[s]) /\ file[s] = Redacted(s)
  /\ outcome = "incomplete" =>
       late /\ (\E s \in Streams : worker[s] = "incomplete") /\ \A s \in Streams : worker[s] # "failed"
  /\ outcome = "unknown" <=> owner = "done" /\ outcome # "none" /\ \E s \in Streams : worker[s] = "failed"

\* Settling a capture, or giving it up, comes to its end although a process
\* that was left behind keeps both streams open and silent, as long as no write
\* to a log file blocks for ever (shutdown, Drop, child_output; the contract's
\* bound on capture shutdown excludes blocked writes).
CaptureSettles ==
  (\A s \in Streams : []<>(worker[s] # "read")) =>
    (owner \in {"failed", "asking", "joining", "dropping"} ~> owner = "done")

=============================================================================
