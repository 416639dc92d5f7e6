--------------------------- MODULE LogAttribution ---------------------------
(***************************************************************************)
(* The log stream of a transaction, and how parse_instructions and         *)
(* attach_logs (parsing/instruction.rs) hand each instruction the lines it *)
(* emitted.                                                                *)
(*                                                                         *)
(* The runtime, which is external, calls programs and writes lines: an     *)
(* "invoke [depth]" when a call opens, the program's own lines, a          *)
(* terminator when it closes.  A failure closes every open call and leaves *)
(* the top-level instructions after it unexecuted, though they stay in the *)
(* transaction.  The stream may be cut anywhere, suppressed altogether,    *)
(* and lacks the invokes of the programs that log nothing (precompiles).   *)
(* Old transactions do not report the stack height of an instruction.      *)
(*                                                                         *)
(* The parser sees the flat list of instructions and the lines, one after  *)
(* the other.  It never sees what is recorded here of the run for the sake *)
(* of the properties: who called whom, who emitted a line, what was lost.  *)
(***************************************************************************)
EXTENDS Integers, SequencesExt

CONSTANTS
    Programs,         \* the programs
    Casts,            \* the sets of programs that one transaction may call
    Silent,           \* those that write no lines
    Works,            \* what an instruction of each program may carry: [op, ...]
    Notes,            \* what each program may log of its own: [tag, ...]
    MaxInstructions, MaxHeight, MaxNotes

ASSUME ProgramAssumption ==
    /\ Silent \subseteq Programs /\ Casts \subseteq SUBSET Programs
    /\ MaxInstructions \in Nat /\ MaxHeight \in Nat /\ MaxNotes \in Nat

VARIABLES
    list,     \* the instructions, flattened: [program, height, work, caller]
    calls,    \* the calls open in the runtime, innermost last
    stream,   \* the lines: [kind, program, depth, note, by, open]
    lost,     \* the instructions of which a line went unrecorded
    run,      \* how the transaction goes: [cast, ok, logging, heights]
    phase,    \* running, parsing, attaching, attached
    parsed,   \* the ParsedInstructions: [program, height, parent, logs]
    stack,    \* parse_instructions: the instructions a next one may be a child of
    frames,   \* attach_logs: the open frames, innermost last
    cursor,   \* attach_logs: how many instructions have had their invoke
    at,       \* attach_logs: how many lines it has read
    outcome   \* attach_logs: the counter it ends in

runtime == <<list, calls, stream, lost, run>>
parser  == <<parsed, stack, frames, cursor, at, outcome>>
lvars   == <<runtime, phase, parser>>

None == 0

NoNote == [tag |-> "none"]

-----------------------------------------------------------------------------
(* The runtime.                                                            *)

LInit ==
    /\ list = <<>> /\ calls = <<>> /\ stream = <<>> /\ lost = {}
    /\ run \in [cast : Casts, ok : {TRUE}, logging : {"on", "suppressed"}, heights : BOOLEAN]
    /\ phase = "running"
    /\ parsed = <<>> /\ stack = <<>> /\ frames = <<>>
    /\ cursor = 0 /\ at = 0 /\ outcome = "none"

Line(kind, by, depth, note, open) ==
    [kind |-> kind, program |-> IF by = None THEN None ELSE list'[by].program,
     depth |-> depth, note |-> note, by |-> by, open |-> open]

\* Lines go to the stream while it is on.
Record(lines) ==
    IF run.logging = "on"
    THEN stream' = stream \o lines /\ lost' = lost
    ELSE stream' = stream /\ lost' = lost \cup {lines[k].by : k \in DOMAIN lines}

\* A silent program writes none.
Unless(silent, line) == IF silent THEN <<>> ELSE <<line>>

IsSilent(i) == list[i].program \in Silent

\* The calls open that write lines: all but perhaps the innermost.
LoudCalls == IF calls # <<>> /\ IsSilent(Last(calls)) THEN Front(calls) ELSE calls

\* An event is an instruction by which a program calls itself, and that calls
\* nothing; a silent program calls nothing either.
MayCall(program, work) ==
    IF calls = <<>> THEN work.op # "event"
    ELSE LET caller == list[Last(calls)]
         IN  /\ caller.program \notin Silent /\ caller.work.op # "event"
             /\ work.op = "event" => caller.program = program

\* A program is called: by the transaction, or by the innermost open call.
Invoke(program, work) ==
    /\ phase = "running" /\ run.ok /\ MayCall(program, work)
    /\ Len(list) < MaxInstructions /\ Len(calls) < MaxHeight
    /\ list' = Append(list, [program |-> program, height |-> Len(calls) + 1, work |-> work,
                             caller |-> IF calls = <<>> THEN None ELSE Last(calls)])
    /\ calls' = Append(calls, Len(list) + 1)
    /\ Record(Unless(program \in Silent,
                     Line("invoke", Len(list) + 1, Len(calls) + 1, NoNote, calls')))
    /\ UNCHANGED <<run, phase, parser>>

\* The innermost call logs something.
Log(note) ==
    /\ phase = "running" /\ calls # <<>> /\ ~IsSilent(Last(calls))
    /\ note \in Notes[list[Last(calls)].program] /\ list[Last(calls)].work.op # "event"
    /\ Cardinality({k \in DOMAIN stream : stream[k].kind = "note"}) < MaxNotes
    /\ UNCHANGED <<list, calls, run, phase, parser>>
    /\ Record(<<Line("note", Last(calls), 0, note, calls)>>)

\* The innermost call returns.
Return ==
    /\ phase = "running" /\ calls # <<>>
    /\ UNCHANGED <<list, run, phase, parser>>
    /\ calls' = Front(calls)
    /\ Record(Unless(IsSilent(Last(calls)), Line("success", Last(calls), 0, NoNote, calls')))

\* The innermost call fails, and with it the transaction.
Fail ==
    /\ phase = "running" /\ calls # <<>>
    /\ run' = [run EXCEPT !.ok = FALSE]
    /\ UNCHANGED <<list, phase, parser>>
    /\ calls' = <<>>
    /\ Record([n \in DOMAIN LoudCalls |->
                  LET left == Len(LoudCalls) - n
                  IN  Line("failed", calls[left + 1], 0, NoNote, SubSeq(calls, 1, left))])

\* The stream has grown too long: a last line says so.
Cut ==
    /\ phase = "running" /\ run.logging = "on" /\ list # <<>>
    /\ UNCHANGED <<list, calls, lost, phase, parser>>
    /\ stream' = Append(stream, Line("truncated", None, 0, NoNote, LoudCalls))
    /\ run' = [run EXCEPT !.logging = "cut"]

\* The transaction is over; one more instruction may not have been reached.
Settle(rest) ==
    /\ phase = "running" /\ calls = <<>> /\ list # <<>>
    /\ rest # <<>> => ~run.ok /\ Len(list) < MaxInstructions
    /\ list' = list \o rest
    /\ phase' = "parsing"
    /\ UNCHANGED <<calls, stream, lost, run, parser>>

\* An instruction the transaction never came to.
Unreached(program, work) ==
    <<[program |-> program, height |-> 1, work |-> work, caller |-> None]>>

Runtime ==
    \/ \E p \in run.cast : \E w \in Works[p] : Invoke(p, w)
    \/ \E note \in UNION {Notes[p] : p \in run.cast} : Log(note)
    \/ Return
    \/ Fail
    \/ Cut
    \/ Settle(<<>>)
    \/ \E p \in run.cast \ Silent : \E w \in Works[p] :
           w.op # "event" /\ Settle(Unreached(p, w))

-----------------------------------------------------------------------------
(* parse_instructions.                                                     *)

\* A height the source does not report counts as top level.
Height(i) == IF run.heights THEN list[i].height ELSE 1

\* Mutant: instructions of the same height stay on the stack.
OutrankingOrEqual(height) ==
    LET kept == {n \in DOMAIN stack : parsed[stack[n]].height <= height}
    IN  IF kept = {} THEN <<>> ELSE SubSeq(stack, 1, Max(kept))

\* What is left of the stack once those at least as high are popped off its end.
Outranking(height) ==
    LET kept == {n \in DOMAIN stack : parsed[stack[n]].height < height}
    IN  IF kept = {} THEN <<>> ELSE SubSeq(stack, 1, Max(kept))

ParseInstruction ==
    /\ phase = "parsing" /\ Len(parsed) < Len(list)
    /\ LET idx    == Len(parsed) + 1
           above  == Outranking(Height(idx))
       IN  /\ parsed' = Append(parsed,
                 [program |-> list[idx].program, height |-> Height(idx),
                  parent |-> IF above = <<>> THEN None ELSE Last(above), logs |-> <<>>])
           /\ stack' = Append(above, idx)
    /\ UNCHANGED <<runtime, phase, frames, cursor, at, outcome>>

StartAttaching ==
    /\ phase = "parsing" /\ Len(parsed) = Len(list)
    /\ phase' = "attaching"
    /\ UNCHANGED <<runtime, parser>>

-----------------------------------------------------------------------------
(* LogEntry::parse, frame_effect and attach_logs.                          *)

\* A program's own message that holds the words of the runtime's cut reads as
\* the cut.
Effect(line) ==
    CASE line.kind = "invoke" -> "open"
      [] line.kind \in {"success", "failed"} -> "close"
      [] line.kind = "truncated" \/ line.note.tag = "says truncated" -> "cut"
      [] OTHER -> "body"

Marker == 0

\* Appends an entry, the number of a line or the marker, to some slices.
Attached(to, entry) ==
    [i \in DOMAIN parsed |->
        IF i \in to THEN [parsed[i] EXCEPT !.logs = Append(@, entry)] ELSE parsed[i]]

Exit(counter) ==
    /\ outcome' = counter
    /\ phase' = "attached"

\* Mutant: only the innermost open frame is told of the cut.
AttachCutInnermost ==
    /\ parsed' = Attached((IF frames = <<>> THEN {} ELSE {Last(frames)})
                          \cup {i \in DOMAIN parsed : i > cursor}, Marker)
    /\ Exit("truncated")
    /\ UNCHANGED <<frames, cursor>>

\* The cut: every open frame and every instruction still waiting is marked.
AttachCut ==
    /\ parsed' = Attached(ToSet(frames) \cup {i \in DOMAIN parsed : i > cursor}, Marker)
    /\ Exit("truncated")
    /\ UNCHANGED <<frames, cursor>>

\* Mutant: the nth invoke opens the nth instruction, whatever it names.
AttachOpenUnverified(line) ==
    IF cursor = Len(parsed) THEN Exit("overrun") /\ UNCHANGED <<parsed, frames, cursor>>
    ELSE /\ parsed' = Attached({cursor + 1}, at + 1)
         /\ frames' = Append(frames, cursor + 1)
         /\ cursor' = cursor + 1
         /\ UNCHANGED <<phase, outcome>>

\* An invoke opens the next instruction, provided it names it.
AttachOpen(line) ==
    CASE cursor = Len(parsed) -> Exit("overrun") /\ UNCHANGED <<parsed, frames, cursor>>
      [] cursor < Len(parsed) /\ (\/ parsed[cursor + 1].program # line.program
                                  \/ parsed[cursor + 1].height # line.depth) ->
            Exit("desynced") /\ UNCHANGED <<parsed, frames, cursor>>
      [] OTHER -> /\ parsed' = Attached({cursor + 1}, at + 1)
                  /\ frames' = Append(frames, cursor + 1)
                  /\ cursor' = cursor + 1
                  /\ UNCHANGED <<phase, outcome>>

\* Mutant: the terminator stays out of the slice.
AttachCloseDropped ==
    /\ frames' = IF frames = <<>> THEN frames ELSE Front(frames)
    /\ UNCHANGED <<parsed, cursor, phase, outcome>>

\* A terminator ends the innermost frame, whatever program it names.
AttachClose ==
    /\ IF frames = <<>> THEN UNCHANGED <<parsed, frames>>
       ELSE parsed' = Attached({Last(frames)}, at + 1) /\ frames' = Front(frames)
    /\ UNCHANGED <<cursor, phase, outcome>>

\* Any other line belongs to the innermost frame.
AttachBody ==
    /\ parsed' = IF frames = <<>> THEN parsed ELSE Attached({Last(frames)}, at + 1)
    /\ UNCHANGED <<frames, cursor, phase, outcome>>

AttachLine ==
    /\ phase = "attaching" /\ at < Len(stream)
    /\ at' = at + 1
    /\ LET line == stream[at + 1]
       IN  \/ Effect(line) = "cut"   /\ AttachCut
           \/ Effect(line) = "open"  /\ AttachOpen(line)
           \/ Effect(line) = "close" /\ AttachClose
           \/ Effect(line) = "body"  /\ AttachBody
    /\ UNCHANGED <<runtime, stack>>

AttachEnd ==
    /\ phase = "attaching" /\ at = Len(stream)
    /\ Exit("complete")
    /\ UNCHANGED <<runtime, parsed, stack, frames, cursor, at>>

Parser == ParseInstruction \/ StartAttaching \/ AttachLine \/ AttachEnd

LNext == Runtime \/ Parser

LSpec == LInit /\ [][LNext]_lvars

-----------------------------------------------------------------------------
(* log_fixture.rs: audit_log_slice.                                        *)

Slice(i) == parsed[i].logs

\* Mutant: an interior invoke is not looked for, nor a missing terminator.
AuditOpening(i) ==
    IF Marker \in ToSet(Slice(i)) THEN "Truncated"
    ELSE IF Slice(i) = <<>> THEN "Empty" ELSE "Ok"

Audit(i) ==
    LET first == stream[Slice(i)[1]]
        last  == stream[Last(Slice(i))]
        rest  == {stream[Slice(i)[k]] : k \in 2 .. Len(Slice(i))}
    IN  CASE \E k \in DOMAIN Slice(i) :
                 Slice(i)[k] = Marker \/ Effect(stream[Slice(i)[k]]) = "cut" -> "Truncated"
          [] Slice(i) = <<>> -> "Empty"
          [] OTHER ->
             CASE first.kind # "invoke" -> "NotOpened"
               [] first.kind = "invoke" /\ first.program # parsed[i].program -> "ForeignOpen"
               [] first.kind = "invoke" /\ first.program = parsed[i].program
                    /\ first.depth # parsed[i].height -> "DepthMismatch"
               [] OTHER ->
                  IF \E l \in rest : l.kind = "invoke" THEN "InteriorInvoke"
                  ELSE IF last.kind \in {"success", "failed"} /\ last.program = parsed[i].program
                       THEN "Ok" ELSE "Unterminated"

-----------------------------------------------------------------------------
(* Properties.                                                             *)

Kinds == {"invoke", "note", "success", "failed", "truncated"}
Outcomes == {"none", "truncated", "overrun", "desynced", "complete"}

\* The bookkeeping is well-formed: the innermost of the open frames and the
\* stack name instructions, in the order they were met (parse_instructions and
\* attach_logs index both without a check).
TypeOK ==
    /\ phase \in {"running", "parsing", "attaching", "attached"}
    /\ Len(list) <= MaxInstructions /\ Len(parsed) <= Len(list)
    /\ \A k \in DOMAIN stream : stream[k].kind \in Kinds /\ stream[k].by \in 0 .. Len(list)
    /\ \A s \in {calls, stack, frames} : \A m, n \in DOMAIN s : m < n => s[m] < s[n]
    /\ ToSet(calls) \subseteq DOMAIN list /\ ToSet(stack) \subseteq DOMAIN parsed
    /\ ToSet(frames) \subseteq 1 .. cursor
    /\ cursor \in 0 .. Len(parsed) /\ at \in 0 .. Len(stream)
    /\ outcome \in Outcomes /\ (outcome # "none" <=> phase = "attached")

\* attach_logs: whatever the stream went through, a line that was handed to an
\* instruction was written by that very call of that program.
LogsAreOwn ==
    \A i \in DOMAIN parsed : \A k \in DOMAIN Slice(i) :
        Slice(i)[k] # Marker => stream[Slice(i)[k]].by = i

\* parse_instructions: the parent rebuilt from heights alone is the caller.
ParentIsCaller ==
    run.heights => \A i \in DOMAIN parsed : parsed[i].parent = list[i].caller

\* attach_logs: an instruction that lost a line to the cut says so, however
\* many calls were open when it came, unless the walk stopped short of the cut.
TruncationIsMarked ==
    phase = "attached" /\ run.logging = "cut" /\ outcome \notin {"desynced", "overrun"} =>
        /\ outcome = "truncated"
        /\ \A i \in lost : Marker \in ToSet(Slice(i))

\* The lines an instruction wrote that are in the stream.
OwnLines(i) == {k \in DOMAIN stream : stream[k].by = i}

\* A slice holds all of them, once each and in order.
IsWhole(i) ==
    /\ ToSet(Slice(i)) = OwnLines(i)
    /\ \A m, n \in DOMAIN Slice(i) : m < n => Slice(i)[m] < Slice(i)[n]

\* audit_log_slice: its Ok says that the slice is all the instruction ever wrote.
AuditOkMeansWhole ==
    phase = "attached" =>
        \A i \in DOMAIN parsed : Audit(i) = "Ok" => i \notin lost /\ IsWhole(i)

Forged == \E k \in DOMAIN stream : stream[k].note.tag = "says truncated"

\* attach_logs: from a sound stream every instruction that ran is given its own
\* lines and passes the audit, the failed ones too.  What was never reached after
\* a failure has no lines and is left out: the audit calls it Empty, which on
\* such a stream means a window lost to a sibling (log_fixture.rs:165-167).
SoundStreamIsAttributed ==
    phase = "attached" /\ run.heights /\ run.logging = "on" /\ ~Forged
    /\ (\A i \in DOMAIN list : list[i].program \notin Silent) =>
        \A i \in DOMAIN list : OwnLines(i) # {} => Audit(i) = "Ok"
=============================================================================
