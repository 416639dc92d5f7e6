-------------------------- MODULE TransactionProofs --------------------------
(***************************************************************************)
(* Proofs about LogAttribution and ChainExtraction, for every set of       *)
(* programs and casts, every choice of the silent ones, and transactions   *)
(* of any length and depth whose streams are cut anywhere.  The first part *)
(* is about the parents and slices that parse_instructions and attach_logs *)
(* hand out, the second about the rows, reports and pools that             *)
(* extract_transaction and discover make of them.                          *)
(***************************************************************************)
EXTENDS ChainExtraction, TLAPS, FiniteSetTheorems,
        NaturalsInduction, WellFoundedInduction

-----------------------------------------------------------------------------
(* Numbers.                                                                *)

\* A nonempty set of naturals has a least element.
LEMMA LeastNatural ==
    ASSUME NEW S \in SUBSET Nat, S # {}
    PROVE  \E x \in S : \A y \in S : x <= y
<1>1. \E R : IsWellFoundedOn(R, Nat) /\ \A x, y \in Nat : y < x => <<y, x>> \in R
  <2>1. \A x, y \in Nat : y < x => <<y, x>> \in OpToRel(<, Nat)
    BY DEF OpToRel
  <2> QED
    BY <2>1, NatLessThanWellFounded, Zenon
<1>2. PICK R : IsWellFoundedOn(R, Nat) /\ \A x, y \in Nat : y < x => <<y, x>> \in R
  BY <1>1
<1>3. PICK x \in S : \A y \in S : <<y, x>> \notin R
  BY <1>2, WFMin
<1>4. ASSUME NEW y \in S
      PROVE  x <= y
  <2>1. x \in Nat /\ y \in Nat
    OBVIOUS
  <2>2. ~ (y < x)
    BY <1>2, <1>3, <2>1, Zenon
  <2> QED
    BY <2>1, <2>2
<1> QED
  BY <1>4

\* Min is the least element of a nonempty set of naturals.
LEMMA MinFacts ==
    ASSUME NEW S \in SUBSET Nat, S # {}
    PROVE  Min(S) \in S /\ \A y \in S : Min(S) <= y
  BY LeastNatural DEF Min

\* A nonempty set of positions has a greatest one.
LEMMA GreatestPosition ==
    ASSUME NEW n \in Nat, NEW S \in SUBSET (1 .. n), S # {}
    PROVE  \E x \in S : \A y \in S : y <= x
<1> DEFINE D == {n - x : x \in S}
<1>1. D \in SUBSET Nat
  OBVIOUS
<1>2. D # {}
  OBVIOUS
<1>3. PICK d \in D : \A e \in D : d <= e
  <2> HIDE DEF D
  <2> QED
    BY <1>1, <1>2, LeastNatural
<1>4. PICK x \in S : d = n - x
  BY <1>3
<1>5. ASSUME NEW y \in S
      PROVE  y <= x
  <2>1. n - x <= n - y
    BY <1>3, <1>4
  <2> QED
    BY <2>1
<1> QED
  BY <1>4, <1>5

\* Max is the greatest element of a nonempty set of positions.
LEMMA MaxFacts ==
    ASSUME NEW n \in Nat, NEW S \in SUBSET (1 .. n), S # {}
    PROVE  Max(S) \in S /\ \A y \in S : y <= Max(S)
<1>1. PICK x \in S : \A y \in S : y <= x
  BY GreatestPosition
<1>2. x \in S /\ \A y \in S : x >= y
  BY <1>1
<1>3. Max(S) \in S /\ \A y \in S : Max(S) >= y
  BY <1>2 DEF Max
<1> QED
  BY <1>3

-----------------------------------------------------------------------------
(* What each variable holds.                                               *)

Work == UNION {Works[p] : p \in Programs}
Note == (UNION {Notes[p] : p \in Programs}) \cup {NoNote}

Instruction == [program : Programs, height : Nat \ {0}, work : Work, caller : Nat]
Entry == [kind : Kinds, program : Programs \cup {None}, depth : Nat, note : Note,
          by : Nat, open : Seq(Nat)]
Parsed == [program : Programs, height : Nat \ {0}, parent : Nat, logs : Seq(Nat)]

(* What each variable holds.                                               *)
Types ==
  /\ list \in Seq(Instruction)
  /\ calls \in Seq(Nat)
  /\ stream \in Seq(Entry)
  /\ run \in [cast : Casts, ok : BOOLEAN, logging : {"on", "cut", "suppressed"}, heights : BOOLEAN]
  /\ phase \in {"running", "parsing", "attaching", "attached"}
  /\ parsed \in Seq(Parsed)
  /\ stack \in Seq(Nat)
  /\ frames \in Seq(Nat)
  /\ cursor \in Nat
  /\ at \in Nat
  /\ outcome \in Outcomes

-----------------------------------------------------------------------------
(* The runtime.                                                            *)

(* The open calls are a path: each is one higher than the one below it,    *)
(* and all that was called since is higher still.                          *)
CallsAreNested ==
  \A n \in 1 .. Len(calls) :
     /\ calls[n] \in 1 .. Len(list)
     /\ list[calls[n]].height = n
     /\ n < Len(calls) => ~IsSilent(calls[n])
     /\ \A j \in calls[n] + 1 .. Len(list) : list[j].height > n

(* A caller is the last instruction before its callee that is lower.       *)
CallersAreBelow ==
  \A i \in 1 .. Len(list) :
     /\ list[i].caller = None <=> list[i].height = 1
     /\ list[i].caller # None =>
           /\ list[i].caller \in 1 .. i - 1
           /\ list[i].height = list[list[i].caller].height + 1
           /\ \A j \in list[i].caller + 1 .. i - 1 : list[j].height >= list[i].height

(* An invoke names the instruction it opens; an instruction has at most    *)
(* one, in the order of the list, and none is missing before another but   *)
(* those of silent programs.                                               *)
Invoked(i, k) == \E j \in 1 .. k : stream[j].kind = "invoke" /\ stream[j].by = i

OrderedAt(k) ==
  stream[k].kind = "invoke" =>
     /\ stream[k].by \in 1 .. Len(list)
     /\ stream[k].program = list[stream[k].by].program
     /\ ~IsSilent(stream[k].by)
     /\ \A j \in 1 .. k - 1 : stream[j].kind = "invoke" => stream[j].by < stream[k].by
     /\ \A i \in 1 .. stream[k].by - 1 : IsSilent(i) \/ Invoked(i, k - 1)

InvokesAreOrdered ==
  /\ \A k \in 1 .. Len(stream) : OrderedAt(k)
  /\ phase = "running" /\ run.logging = "on" =>
        \A i \in 1 .. Len(list) : IsSilent(i) \/ Invoked(i, Len(stream))

Open(k) == IF k = 0 THEN <<>> ELSE stream[k].open

(* The calls open after a line are those open before it but for the one it *)
(* opens or closes; a line is of the call that was innermost.              *)
OpensAt(k) ==
  /\ stream[k].kind = "invoke" => stream[k].open = Append(Open(k - 1), stream[k].by)
  /\ stream[k].kind \in {"success", "failed", "note"} =>
        Open(k - 1) # <<>> /\ stream[k].by = Last(Open(k - 1))
  /\ stream[k].kind \in {"success", "failed"} => stream[k].open = Front(Open(k - 1))
  /\ stream[k].kind = "note" => stream[k].open = Open(k - 1)

OpensFollow ==
  /\ \A k \in 1 .. Len(stream) : OpensAt(k)
  /\ phase = "running" /\ run.logging = "on" => Open(Len(stream)) = LoudCalls

RuntimeInv == CallsAreNested /\ CallersAreBelow /\ InvokesAreOrdered /\ OpensFollow

-----------------------------------------------------------------------------
(* The parser.                                                             *)

(* An instruction is parsed as it is in the list.                          *)
ParsedFaithfully ==
  /\ Len(parsed) <= Len(list)
  /\ \A i \in 1 .. Len(parsed) :
        parsed[i].program = list[i].program /\ parsed[i].height = Height(i)
  /\ phase = "running" => parsed = <<>> /\ stack = <<>>
  /\ phase \in {"attaching", "attached"} => Len(parsed) = Len(list)

(* The stack holds, in order, the instructions after which all are higher. *)
StackIsPath ==
  /\ \A n \in 1 .. Len(stack) :
        /\ stack[n] \in 1 .. Len(parsed)
        /\ \A m \in 1 .. n - 1 : stack[m] < stack[n]
        /\ \A j \in stack[n] + 1 .. Len(parsed) : parsed[j].height > parsed[stack[n]].height
  /\ \A j \in 1 .. Len(parsed) :
        (\A l \in j + 1 .. Len(parsed) : parsed[l].height > parsed[j].height)
           => \E n \in 1 .. Len(stack) : stack[n] = j

(* While lines are read, the frames are the calls that were open when the  *)
(* last line was written, and the cursor stands at the last call opened.   *)
FramesAreOpenCalls ==
  /\ at \in 0 .. Len(stream) /\ cursor \in 0 .. Len(parsed)
  /\ phase \in {"running", "parsing"} => frames = <<>> /\ cursor = 0 /\ at = 0
  /\ phase = "attaching" =>
        /\ frames = Open(at)
        /\ \A j \in 1 .. at : stream[j].kind = "invoke" => stream[j].by <= cursor
        /\ cursor = 0 \/ \E j \in 1 .. at : stream[j].kind = "invoke" /\ stream[j].by = cursor

LInv ==
  /\ Types /\ RuntimeInv /\ ParsedFaithfully /\ StackIsPath /\ FramesAreOpenCalls
  /\ ParentIsCaller /\ LogsAreOwn

-----------------------------------------------------------------------------
(* Sequences.                                                              *)

(* A concatenation holds the first sequence, then the second.              *)
LEMMA ConcatFacts ==
  ASSUME NEW S, NEW s \in Seq(S), NEW t \in Seq(S)
  PROVE  /\ s \o t \in Seq(S)
         /\ Len(s \o t) = Len(s) + Len(t)
         /\ \A k \in 1 .. Len(s) : (s \o t)[k] = s[k]
         /\ \A k \in 1 .. Len(t) : (s \o t)[Len(s) + k] = t[k]
  OBVIOUS

(* A prefix.                                                               *)
LEMMA PrefixFacts ==
  ASSUME NEW S, NEW s \in Seq(S), NEW n \in 0 .. Len(s)
  PROVE  /\ SubSeq(s, 1, n) \in Seq(S)
         /\ Len(SubSeq(s, 1, n)) = n
         /\ \A k \in 1 .. n : SubSeq(s, 1, n)[k] = s[k]
  OBVIOUS

(* All but the last element.                                               *)
LEMMA FrontFacts ==
  ASSUME NEW S, NEW s \in Seq(S), s # <<>>
  PROVE  /\ Front(s) \in Seq(S)
         /\ Len(Front(s)) = Len(s) - 1
         /\ \A k \in 1 .. Len(s) - 1 : Front(s)[k] = s[k]
         /\ Last(s) = s[Len(s)]
         /\ Len(s) \in Nat \ {0}
<1>1. Len(s) \in Nat \ {0}
  OBVIOUS
<1>2. /\ SubSeq(s, 1, Len(s) - 1) \in Seq(S)
      /\ Len(SubSeq(s, 1, Len(s) - 1)) = Len(s) - 1
      /\ \A k \in 1 .. Len(s) - 1 : SubSeq(s, 1, Len(s) - 1)[k] = s[k]
  <2>1. Len(s) - 1 \in 0 .. Len(s)
    BY <1>1
  <2>. QED BY <2>1, PrefixFacts
<1>. QED BY <1>1, <1>2 DEF Front, Last

(* Sequences of one length that agree everywhere are one.                  *)
LEMMA SameSeq ==
  ASSUME NEW S, NEW s \in Seq(S), NEW t \in Seq(S), Len(s) = Len(t),
         \A k \in 1 .. Len(s) : s[k] = t[k]
  PROVE  s = t
  OBVIOUS

-----------------------------------------------------------------------------
(* What a step of the runtime changes.                                     *)

(* The line that Record adds, or several, or none, are entries.            *)
LEMMA RecordTypes ==
  ASSUME Types, NEW lines \in Seq(Entry), Record(lines)
  PROVE  stream' \in Seq(Entry)
<1>1. stream \in Seq(Entry)
  BY DEF Types
<1>2. stream' \in {stream, stream \o lines}
  BY DEF Record
<1>. QED BY <1>1, <1>2, ConcatFacts

(* A line has the writer, the calls and the program it was given.          *)
LEMMA LineType ==
  ASSUME list' \in Seq(Instruction), NEW kind \in Kinds, NEW by \in Nat,
         NEW depth \in Nat, NEW note \in Note, NEW open \in Seq(Nat),
         by = None \/ by \in 1 .. Len(list')
  PROVE  /\ Line(kind, by, depth, note, open) \in Entry
         /\ Line(kind, by, depth, note, open).kind = kind
         /\ Line(kind, by, depth, note, open).by = by
         /\ Line(kind, by, depth, note, open).open = open
         /\ by # None => Line(kind, by, depth, note, open).program = list'[by].program
<1>1. by # None => list'[by] \in Instruction
  OBVIOUS
<1>2. by # None => list'[by].program \in Programs
  BY <1>1 DEF Instruction
<1>. QED BY <1>2 DEF Line, Entry

(* The innermost call and the ones below it.                               *)
LEMMA CallFacts ==
  ASSUME Types, CallsAreNested
  PROVE  /\ LoudCalls \in Seq(Nat)
         /\ Len(LoudCalls) <= Len(calls)
         /\ \A n \in 1 .. Len(LoudCalls) :
               /\ LoudCalls[n] = calls[n]
               /\ calls[n] \in 1 .. Len(list)
               /\ ~IsSilent(calls[n])
         /\ calls # <<>> =>
               /\ Last(calls) = calls[Len(calls)]
               /\ Last(calls) \in 1 .. Len(list)
               /\ Front(calls) \in Seq(Nat)
               /\ Len(Front(calls)) = Len(calls) - 1
               /\ \A n \in 1 .. Len(calls) - 1 : Front(calls)[n] = calls[n]
               /\ LoudCalls = IF IsSilent(Last(calls)) THEN Front(calls) ELSE calls
<1>1. CASE calls = <<>>
  BY <1>1 DEF Types, LoudCalls
<1>2. CASE calls # <<>>
  <2>1. Len(calls) \in Nat \ {0}
    BY <1>2 DEF Types
  <2>2. Last(calls) = calls[Len(calls)] /\ Last(calls) \in 1 .. Len(list)
    BY <2>1 DEF CallsAreNested, Last
  <2>3. /\ Front(calls) \in Seq(Nat)
        /\ Len(Front(calls)) = Len(calls) - 1
        /\ \A n \in 1 .. Len(calls) - 1 : Front(calls)[n] = calls[n]
    <3>1. calls \in Seq(Nat)
      BY DEF Types
    <3>. QED BY <1>2, <3>1, FrontFacts
  <2>4. CASE IsSilent(Last(calls))
    BY <1>2, <2>1, <2>2, <2>3, <2>4 DEF LoudCalls, CallsAreNested
  <2>5. CASE ~IsSilent(Last(calls))
    BY <1>2, <2>1, <2>2, <2>3, <2>5 DEF LoudCalls, CallsAreNested, Types
  <2>. QED BY <1>2, <2>2, <2>3, <2>4, <2>5
<1>. QED BY <1>1, <1>2

(* A call: what it does to the list and to the calls.                      *)
LEMMA InvokeFacts ==
  ASSUME Types, CallsAreNested, NEW p \in run.cast, NEW w \in Works[p], Invoke(p, w)
  PROVE  /\ list' \in Seq(Instruction)
         /\ Len(list') = Len(list) + 1
         /\ \A i \in 1 .. Len(list) : list'[i] = list[i]
         /\ list'[Len(list) + 1].program = p
         /\ list'[Len(list) + 1].height = Len(calls) + 1
         /\ list'[Len(list) + 1].caller = IF calls = <<>> THEN None ELSE calls[Len(calls)]
         /\ calls # <<>> => ~IsSilent(calls[Len(calls)])
         /\ calls' \in Seq(Nat)
         /\ Len(calls') = Len(calls) + 1
         /\ \A n \in 1 .. Len(calls) : calls'[n] = calls[n]
         /\ calls'[Len(calls) + 1] = Len(list) + 1
<1>1. p \in Programs
  BY ProgramAssumption DEF Types
<1>2. w \in Work
  BY <1>1 DEF Work
<1>3. calls # <<>> => Last(calls) = calls[Len(calls)] /\ calls[Len(calls)] \in Nat
  BY CallFacts DEF Types
<1>4. [program |-> p, height |-> Len(calls) + 1, work |-> w,
       caller |-> IF calls = <<>> THEN None ELSE Last(calls)] \in Instruction
  BY <1>1, <1>2, <1>3 DEF Instruction, None, Types
<1>5. calls # <<>> => ~IsSilent(calls[Len(calls)])
  BY <1>3 DEF Invoke, MayCall, IsSilent
<1>. QED BY <1>3, <1>4, <1>5 DEF Invoke, Types

(* The run keeps every variable in its set.                                *)
LEMMA RuntimeTypes ==
  ASSUME Types, CallsAreNested, Runtime
  PROVE  Types'
<1>0. NoNote \in Note /\ {"invoke", "note", "success", "failed", "truncated"} \subseteq Kinds
  BY DEF Note, Kinds
<1>1. ASSUME NEW p \in run.cast, NEW w \in Works[p], Invoke(p, w)
      PROVE  Types'
  <2> DEFINE line == Line("invoke", Len(list) + 1, Len(calls) + 1, NoNote, calls')
  <2>1. line \in Entry
    <3>1. list \in Seq(Instruction) /\ calls \in Seq(Nat)
      BY DEF Types
    <3>2. /\ list' \in Seq(Instruction) /\ calls' \in Seq(Nat)
          /\ Len(list') = Len(list) + 1
      BY <1>1, InvokeFacts
    <3>3. Len(list) + 1 \in Nat /\ Len(calls) + 1 \in Nat /\ Len(list) + 1 \in 1 .. Len(list')
      BY <3>1, <3>2
    <3>. QED BY <3>2, <3>3, <1>0, LineType
  <2>2. Unless(p \in Silent, line) \in Seq(Entry)
    BY <2>1 DEF Unless
  <2>3. stream' \in Seq(Entry)
    <3>1. Record(Unless(p \in Silent, line))
      BY <1>1 DEF Invoke
    <3>. QED BY <2>2, <3>1, RecordTypes
  <2>. QED BY <1>1, <2>3, InvokeFacts DEF Invoke, Types, parser
<1>2. ASSUME NEW note \in UNION {Notes[p] : p \in run.cast}, Log(note)
      PROVE  Types'
  <2>1. note \in Note
    BY ProgramAssumption DEF Types, Note
  <2>2. Line("note", Last(calls), 0, note, calls) \in Entry
    <3>1. list' = list /\ calls # <<>>
      BY <1>2 DEF Log
    <3>2. list \in Seq(Instruction) /\ calls \in Seq(Nat)
      BY DEF Types
    <3>3. Last(calls) \in 1 .. Len(list) /\ Last(calls) \in Nat
      BY <3>1, <3>2, CallFacts
    <3>. QED BY <1>0, <2>1, <3>1, <3>2, <3>3, LineType
  <2>3. stream' \in Seq(Entry)
    <3>1. <<Line("note", Last(calls), 0, note, calls)>> \in Seq(Entry)
      BY <2>2
    <3>2. Record(<<Line("note", Last(calls), 0, note, calls)>>)
      BY <1>2 DEF Log
    <3>. QED BY <3>1, <3>2, RecordTypes
  <2>. QED BY <1>2, <2>3 DEF Log, Types, parser
<1>3. CASE Return
  <2>1. Line("success", Last(calls), 0, NoNote, calls') \in Entry
    <3>1. list' = list /\ calls # <<>> /\ calls' = Front(calls)
      BY <1>3 DEF Return
    <3>2. list \in Seq(Instruction) /\ calls' \in Seq(Nat)
      BY <3>1, CallFacts DEF Types
    <3>3. Last(calls) \in 1 .. Len(list) /\ Last(calls) \in Nat
      BY <3>1, <3>2, CallFacts
    <3>. QED BY <1>0, <3>1, <3>2, <3>3, LineType
  <2>2. Unless(IsSilent(Last(calls)), Line("success", Last(calls), 0, NoNote, calls')) \in Seq(Entry)
    BY <2>1 DEF Unless
  <2>3. stream' \in Seq(Entry)
    BY <1>3, <2>2, RecordTypes DEF Return
  <2>. QED BY <1>3, <2>3, CallFacts DEF Return, Types, parser
<1>4. CASE Fail
  <2> DEFINE L(n) == Line("failed", calls[Len(LoudCalls) - n + 1], 0, NoNote,
                          SubSeq(calls, 1, Len(LoudCalls) - n))
             lines == [n \in DOMAIN LoudCalls |-> L(n)]
  <2>1. ASSUME NEW n \in 1 .. Len(LoudCalls)
        PROVE  L(n) \in Entry
    <3>1. Len(LoudCalls) - n \in 0 .. Len(calls) /\ Len(LoudCalls) - n + 1 \in 1 .. Len(LoudCalls)
      BY CallFacts DEF Types
    <3>2. SubSeq(calls, 1, Len(LoudCalls) - n) \in Seq(Nat)
      BY <3>1 DEF Types
    <3>3. calls[Len(LoudCalls) - n + 1] \in 1 .. Len(list)
      BY <3>1, CallFacts
    <3>4. list' = list /\ list \in Seq(Instruction)
      BY <1>4 DEF Fail, Types
    <3>5. calls[Len(LoudCalls) - n + 1] \in Nat
      BY <3>3, <3>4
    <3>. QED BY <1>0, <3>2, <3>3, <3>4, <3>5, LineType
  <2>2. lines \in Seq(Entry)
    <3>1. DOMAIN LoudCalls = 1 .. Len(LoudCalls) /\ Len(LoudCalls) \in Nat
      BY CallFacts
    <3>. QED BY <2>1, <3>1
  <2>3. Record(lines)
    BY <1>4 DEF Fail
  <2>4. stream' \in Seq(Entry)
    BY <2>2, <2>3, RecordTypes
  <2>5. run' \in [cast : Casts, ok : BOOLEAN, logging : {"on", "cut", "suppressed"}, heights : BOOLEAN]
    BY <1>4 DEF Fail, Types
  <2>. QED BY <1>4, <2>4, <2>5 DEF Fail, Types, parser
<1>5. CASE Cut
  <2>1. Line("truncated", None, 0, NoNote, LoudCalls) \in Entry
    BY <1>5, CallFacts, LineType DEF Cut, Kinds, Note, Types, None
  <2>2. run' \in [cast : Casts, ok : BOOLEAN, logging : {"on", "cut", "suppressed"}, heights : BOOLEAN]
    BY <1>5 DEF Cut, Types
  <2>3. stream' \in Seq(Entry)
    BY <1>5, <2>1 DEF Cut, Types
  <2>. QED BY <1>5, <2>2, <2>3 DEF Cut, Types, parser
<1>6. ASSUME NEW rest \in Seq(Instruction), Settle(rest)
      PROVE  Types'
  BY <1>6 DEF Settle, Types, parser
<1>7. ASSUME NEW p \in run.cast \ Silent, NEW w \in Works[p]
      PROVE  Unreached(p, w) \in Seq(Instruction)
  <2>1. p \in Programs /\ w \in Work
    BY ProgramAssumption DEF Types, Work
  <2>. QED BY <2>1 DEF Unreached, Instruction, None
<1>8. ASSUME Settle(<<>>) PROVE Types'
  <2>1. <<>> \in Seq(Instruction)
    OBVIOUS
  <2>. QED BY <1>6, <1>8, <2>1
<1>9. ASSUME NEW p \in run.cast \ Silent, NEW w \in Works[p], Settle(Unreached(p, w))
      PROVE  Types'
  BY <1>6, <1>7, <1>9
<1>. QED BY <1>1, <1>2, <1>3, <1>4, <1>5, <1>8, <1>9 DEF Runtime

(* The list only grows, at most by one instruction.                        *)
LEMMA ListGrows ==
  ASSUME Types, CallsAreNested, Runtime
  PROVE  /\ Len(list') \in {Len(list), Len(list) + 1}
         /\ \A i \in 1 .. Len(list) : list'[i] = list[i] /\ (IsSilent(i)' <=> IsSilent(i))
<1>0. list \in Seq(Instruction)
  BY DEF Types
<1>1. ASSUME NEW p \in run.cast, NEW w \in Works[p], Invoke(p, w)
      PROVE  /\ Len(list') = Len(list) + 1
             /\ \A i \in 1 .. Len(list) : list'[i] = list[i]
  BY <1>1, InvokeFacts
<1>2. ASSUME list' = list \/ \E x \in Instruction : list' = Append(list, x)
      PROVE  /\ Len(list') \in {Len(list), Len(list) + 1}
             /\ \A i \in 1 .. Len(list) : list'[i] = list[i]
  BY <1>0, <1>2
<1>3. ASSUME NEW p \in run.cast \ Silent, NEW w \in Works[p], Settle(Unreached(p, w))
      PROVE  \E x \in Instruction : list' = Append(list, x)
  <2> DEFINE x == [program |-> p, height |-> 1, work |-> w, caller |-> None]
  <2>1. p \in Programs /\ w \in Work
    BY ProgramAssumption DEF Types, Work
  <2>2. x \in Instruction
    BY <2>1 DEF Instruction, None
  <2>3. list' = list \o <<x>>
    BY <1>3 DEF Settle, Unreached
  <2>4. list \o <<x>> = Append(list, x)
    BY <1>0, <2>2
  <2>. QED BY <2>2, <2>3, <2>4
<1>4. Settle(<<>>) => list' = list
  BY <1>0 DEF Settle
<1>5. /\ Len(list') \in {Len(list), Len(list) + 1}
      /\ \A i \in 1 .. Len(list) : list'[i] = list[i]
  <2>1. CASE \E p \in run.cast : \E w \in Works[p] : Invoke(p, w)
    BY <2>1, <1>0, <1>1
  <2>2. CASE \/ \E note \in UNION {Notes[p] : p \in run.cast} : Log(note)
             \/ Return \/ Fail \/ Cut
    BY <2>2, <1>2 DEF Log, Return, Fail, Cut
  <2>. QED BY <2>1, <2>2, <1>2, <1>3, <1>4 DEF Runtime
<1>. QED BY <1>0, <1>5 DEF IsSilent

(* The calls stay a path: a new one is innermost, a return takes it off.   *)
LEMMA NestedInductive ==
  ASSUME Types, CallsAreNested, Runtime
  PROVE  CallsAreNested'
<1>0. list \in Seq(Instruction) /\ calls \in Seq(Nat)
  BY DEF Types
<1>1. ASSUME NEW p \in run.cast, NEW w \in Works[p], Invoke(p, w)
      PROVE  CallsAreNested'
  <2> SUFFICES ASSUME NEW n \in 1 .. Len(calls')
               PROVE  /\ calls'[n] \in 1 .. Len(list')
                      /\ list'[calls'[n]].height = n
                      /\ n < Len(calls') => ~IsSilent(calls[n])'
                      /\ \A j \in calls'[n] + 1 .. Len(list') : list'[j].height > n
    BY DEF CallsAreNested
  <2>1. /\ Len(calls') = Len(calls) + 1 /\ Len(list') = Len(list) + 1
        /\ list'[Len(list) + 1].height = Len(calls) + 1
        /\ calls'[Len(calls) + 1] = Len(list) + 1
    BY <1>1, InvokeFacts
  <2>2. CASE n = Len(calls) + 1
    BY <1>0, <2>1, <2>2
  <2>3. CASE n \in 1 .. Len(calls)
    <3>1. /\ calls[n] \in 1 .. Len(list) /\ list[calls[n]].height = n
          /\ ~IsSilent(calls[n])
          /\ \A j \in calls[n] + 1 .. Len(list) : list[j].height > n
      BY <1>0, <1>1, <2>3, InvokeFacts, SMTT(30) DEF CallsAreNested
    <3>2. calls'[n] = calls[n]
      BY <1>1, <2>3, InvokeFacts
    <3>3. ~IsSilent(calls[n])'
      BY <3>1, <3>2, <1>1, ListGrows DEF Runtime, IsSilent
    <3>4. \A j \in 1 .. Len(list) : list'[j] = list[j]
      BY <1>1, InvokeFacts
    <3>5. Len(calls) \in Nat /\ Len(list) \in Nat
      BY <1>0
    <3>6. ASSUME NEW j \in calls[n] + 1 .. Len(list) + 1
          PROVE  list'[j].height > n
      <4>1. CASE j \in calls[n] + 1 .. Len(list)
        BY <3>1, <3>4, <3>5, <4>1
      <4>2. CASE j = Len(list) + 1
        BY <2>1, <2>3, <3>5, <4>2
      <4>. QED BY <3>1, <3>5, <4>1, <4>2
    <3>7. calls'[n] \in 1 .. Len(list') /\ list'[calls'[n]].height = n
      BY <2>1, <3>1, <3>2, <3>4, <3>5
    <3>. QED BY <2>1, <3>2, <3>3, <3>6, <3>7
  <2>. QED BY <1>0, <2>1, <2>2, <2>3
<1>2. ASSUME UNCHANGED list, calls' = Front(calls), calls # <<>>
      PROVE  CallsAreNested'
  <2>1. /\ Len(calls') = Len(calls) - 1 /\ Len(calls) \in Nat \ {0}
        /\ \A n \in 1 .. Len(calls) - 1 : calls'[n] = calls[n]
    BY <1>0, <1>2, FrontFacts
  <2>. QED BY <1>0, <1>2, <2>1, SMTT(30) DEF CallsAreNested, IsSilent
<1>3. ASSUME UNCHANGED <<list, calls>> PROVE CallsAreNested'
  BY <1>3 DEF CallsAreNested, IsSilent
<1>4. ASSUME calls' = <<>> PROVE CallsAreNested'
  BY <1>4 DEF CallsAreNested
<1>5. ASSUME NEW rest, Settle(rest) PROVE CallsAreNested'
  BY <1>5, <1>4 DEF Settle
<1>6. Return => CallsAreNested'
  BY <1>2 DEF Return
<1>7. Fail => CallsAreNested'
  BY <1>4 DEF Fail
<1>8. Cut => CallsAreNested'
  BY <1>3 DEF Cut
<1>9. ASSUME NEW note, Log(note) PROVE CallsAreNested'
  BY <1>3, <1>9 DEF Log
<1>. QED BY <1>1, <1>5, <1>6, <1>7, <1>8, <1>9 DEF Runtime

(* A new instruction is called by the innermost open call, and what was    *)
(* called since that one is not lower than the new one.                    *)
LEMMA CallersInductive ==
  ASSUME Types, CallsAreNested, CallersAreBelow, Runtime
  PROVE  CallersAreBelow'
<1>0. list \in Seq(Instruction) /\ calls \in Seq(Nat)
  BY DEF Types
<1> DEFINE Below(l, i) ==
             /\ l[i].caller = None <=> l[i].height = 1
             /\ l[i].caller # None =>
                   /\ l[i].caller \in 1 .. i - 1
                   /\ l[i].height = l[l[i].caller].height + 1
                   /\ \A j \in l[i].caller + 1 .. i - 1 : l[j].height >= l[i].height
<1>1. \A i \in 1 .. Len(list) : Below(list, i)
  BY DEF CallersAreBelow
<1>2. ASSUME NEW i \in 1 .. Len(list) PROVE Below(list', i)
  <2>1. \A j \in 1 .. i : list'[j] = list[j]
    BY <1>0, ListGrows
  <2>2. Below(list, i)
    BY <1>1
  <2>3. i \in Nat \ {0} /\ list'[i] = list[i]
    BY <1>0, <2>1
  <2>4. CASE list[i].caller = None
    BY <2>2, <2>3, <2>4
  <2>5. CASE list[i].caller # None
    <3>1. /\ list[i].caller \in 1 .. i - 1
          /\ list[i].height = list[list[i].caller].height + 1
          /\ \A j \in list[i].caller + 1 .. i - 1 : list[j].height >= list[i].height
      BY <2>2, <2>5
    <3>2. list'[list[i].caller] = list[list[i].caller]
      BY <2>1, <2>3, <3>1
    <3>3. \A j \in list[i].caller + 1 .. i - 1 : j \in 1 .. i
      BY <2>3, <3>1
    <3>. QED BY <2>1, <2>2, <2>3, <3>1, <3>2, <3>3
  <2>. QED BY <2>4, <2>5
<1>3. ASSUME Len(list') = Len(list) + 1 PROVE Below(list', Len(list) + 1)
  <2>1. ASSUME NEW p \in run.cast, NEW w \in Works[p], Invoke(p, w)
        PROVE  Below(list', Len(list) + 1)
    <3>1. /\ list'[Len(list) + 1].height = Len(calls) + 1
          /\ list'[Len(list) + 1].caller = IF calls = <<>> THEN None ELSE calls[Len(calls)]
          /\ \A j \in 1 .. Len(list) : list'[j] = list[j]
      BY <2>1, InvokeFacts
    <3>2. CASE calls = <<>>
      BY <3>1, <3>2
    <3>3. CASE calls # <<>>
      <4>1. /\ calls[Len(calls)] \in 1 .. Len(list)
            /\ list[calls[Len(calls)]].height = Len(calls)
            /\ Len(calls) \in Nat \ {0}
            /\ \A j \in calls[Len(calls)] + 1 .. Len(list) : list[j].height > Len(calls)
        BY <1>0, <3>3 DEF CallsAreNested
      <4>2. list'[calls[Len(calls)]].height = Len(calls)
        BY <3>1, <4>1
      <4>3. \A j \in calls[Len(calls)] + 1 .. Len(list) :
               list'[j] = list[j] /\ list[j].height > Len(calls) /\ list[j].height \in Nat
        <5>1. \A j \in calls[Len(calls)] + 1 .. Len(list) : j \in 1 .. Len(list)
          BY <1>0, <4>1
        <5>2. \A j \in 1 .. Len(list) : list[j] \in Instruction
          BY <1>0
        <5>. QED BY <3>1, <4>1, <5>1, <5>2 DEF Instruction
      <4>. QED BY <1>0, <3>1, <3>3, <4>1, <4>2, <4>3, SMTT(30) DEF None
    <3>. QED BY <3>2, <3>3
  <2>2. ASSUME NEW p \in run.cast \ Silent, NEW w \in Works[p], Settle(Unreached(p, w))
        PROVE  Below(list', Len(list) + 1)
    <3> DEFINE x == [program |-> p, height |-> 1, work |-> w, caller |-> None]
    <3>1. list' = list \o <<x>>
      BY <2>2 DEF Settle, Unreached
    <3>2. list'[Len(list) + 1] = x
      BY <1>0, <3>1
    <3>. QED BY <3>2
  <2>3. list' # list
    BY <1>0, <1>3
  <2>4. Settle(<<>>) => list' = list
    BY <1>0 DEF Settle
  <2>. QED BY <2>1, <2>2, <2>3, <2>4 DEF Runtime, Log, Return, Fail, Cut
<1>4. ASSUME NEW i \in 1 .. Len(list') PROVE Below(list', i)
  BY <1>0, <1>2, <1>3, ListGrows
<1>. QED BY <1>4 DEF CallersAreBelow

-----------------------------------------------------------------------------
(* The stream.                                                             *)

(* A line that is recorded comes after the others, or is lost.             *)
LEMMA OneLine ==
  ASSUME stream \in Seq(Entry), NEW line \in Entry, Record(<<line>>)
  PROVE  IF run.logging = "on"
         THEN /\ stream' \in Seq(Entry)
              /\ Len(stream') = Len(stream) + 1
              /\ \A k \in 1 .. Len(stream) : stream'[k] = stream[k]
              /\ stream'[Len(stream) + 1] = line
         ELSE stream' = stream
<1>1. CASE run.logging = "on"
  <2>1. stream' = stream \o <<line>>
    BY <1>1 DEF Record
  <2>2. <<line>> \in Seq(Entry) /\ Len(<<line>>) = 1 /\ <<line>>[1] = line
    OBVIOUS
  <2>. QED BY <1>1, <2>1, <2>2, ConcatFacts
<1>. QED BY <1>1 DEF Record

(* Several lines, in their order.                                          *)
LEMMA ManyLines ==
  ASSUME stream \in Seq(Entry), NEW lines \in Seq(Entry), Record(lines), run.logging = "on"
  PROVE  /\ Len(stream') = Len(stream) + Len(lines)
         /\ \A k \in 1 .. Len(stream) : stream'[k] = stream[k]
         /\ \A n \in 1 .. Len(lines) : stream'[Len(stream) + n] = lines[n]
<1>1. stream' = stream \o lines
  BY DEF Record
<1>. QED BY <1>1, ConcatFacts

(* No line.                                                                *)
LEMMA NoLine ==
  ASSUME stream \in Seq(Entry), Record(<<>>)
  PROVE  stream' = stream
  BY DEF Record

(* What an invoke writes.                                                  *)
LEMMA InvokeWrites ==
  ASSUME Types, CallsAreNested, NEW p \in run.cast, NEW w \in Works[p], Invoke(p, w)
  PROVE  \/ stream' = stream /\ (p \in Silent \/ run.logging # "on")
         \/ /\ p \notin Silent
            /\ run.logging = "on"
            /\ Len(stream') = Len(stream) + 1
            /\ \A k \in 1 .. Len(stream) : stream'[k] = stream[k]
            /\ stream'[Len(stream) + 1].kind = "invoke"
            /\ stream'[Len(stream) + 1].by = Len(list) + 1
            /\ stream'[Len(stream) + 1].program = p
            /\ stream'[Len(stream) + 1].open = calls'
<1> DEFINE line == Line("invoke", Len(list) + 1, Len(calls) + 1, NoNote, calls')
<1>0. stream \in Seq(Entry) /\ list \in Seq(Instruction) /\ calls \in Seq(Nat)
  BY DEF Types
<1>1. Record(Unless(p \in Silent, line))
  BY DEF Invoke
<1>2. CASE p \in Silent
  BY <1>0, <1>1, <1>2, NoLine DEF Unless
<1>3. CASE p \notin Silent
  <2>1. "invoke" \in Kinds /\ NoNote \in Note
    BY DEF Kinds, Note
  <2>2. /\ list' \in Seq(Instruction) /\ calls' \in Seq(Nat)
        /\ Len(list') = Len(list) + 1 /\ list'[Len(list) + 1].program = p
    BY InvokeFacts
  <2>3. Len(list) + 1 \in Nat /\ Len(calls) + 1 \in Nat /\ Len(list) + 1 \in 1 .. Len(list')
    BY <1>0, <2>2
  <2>4. /\ line \in Entry /\ line.kind = "invoke" /\ line.by = Len(list) + 1
        /\ line.open = calls' /\ line.program = p
    BY <1>0, <2>1, <2>2, <2>3, LineType DEF None
  <2>5. Record(<<line>>)
    BY <1>1, <1>3 DEF Unless
  <2>. QED BY <1>0, <1>3, <2>4, <2>5, OneLine
<1>. QED BY <1>2, <1>3

(* What a return or a message writes.                                      *)
LEMMA CallWrites ==
  ASSUME Types, CallsAreNested, NEW kind \in {"success", "note"}, NEW note \in Note,
         list' = list, calls # <<>>, NEW open \in Seq(Nat),
         Record(Unless(IsSilent(Last(calls)), Line(kind, Last(calls), 0, note, open)))
  PROVE  \/ stream' = stream /\ (IsSilent(Last(calls)) \/ run.logging # "on")
         \/ /\ ~IsSilent(Last(calls))
            /\ run.logging = "on"
            /\ Len(stream') = Len(stream) + 1
            /\ \A k \in 1 .. Len(stream) : stream'[k] = stream[k]
            /\ stream'[Len(stream) + 1].kind = kind
            /\ stream'[Len(stream) + 1].by = Last(calls)
            /\ stream'[Len(stream) + 1].open = open
<1> DEFINE line == Line(kind, Last(calls), 0, note, open)
<1>0. stream \in Seq(Entry) /\ list \in Seq(Instruction) /\ calls \in Seq(Nat)
  BY DEF Types
<1>1. CASE IsSilent(Last(calls))
  BY <1>0, <1>1, NoLine DEF Unless
<1>2. CASE ~IsSilent(Last(calls))
  <2>1. kind \in Kinds
    BY DEF Kinds
  <2>2. Last(calls) \in 1 .. Len(list) /\ Last(calls) \in Nat
    BY <1>0, CallFacts
  <2>3. line \in Entry /\ line.kind = kind /\ line.by = Last(calls) /\ line.open = open
    BY <1>0, <2>1, <2>2, LineType
  <2>4. Record(<<line>>)
    BY <1>2 DEF Unless
  <2>. QED BY <1>0, <1>2, <2>3, <2>4, OneLine
<1>. QED BY <1>1, <1>2

(* What a failure writes: a line per open call, from the innermost on.     *)
LEMMA FailWrites ==
  ASSUME Types, CallsAreNested, Fail
  PROVE  \/ stream' = stream /\ run.logging # "on"
         \/ /\ run.logging = "on"
            /\ Len(stream') = Len(stream) + Len(LoudCalls)
            /\ \A k \in 1 .. Len(stream) : stream'[k] = stream[k]
            /\ \A n \in 1 .. Len(LoudCalls) :
                  /\ stream'[Len(stream) + n].kind = "failed"
                  /\ stream'[Len(stream) + n].by = LoudCalls[Len(LoudCalls) - n + 1]
                  /\ stream'[Len(stream) + n].open = SubSeq(LoudCalls, 1, Len(LoudCalls) - n)
<1> DEFINE L(n) == Line("failed", calls[Len(LoudCalls) - n + 1], 0, NoNote,
                        SubSeq(calls, 1, Len(LoudCalls) - n))
           lines == [n \in DOMAIN LoudCalls |-> L(n)]
<1>0. stream \in Seq(Entry) /\ list \in Seq(Instruction) /\ calls \in Seq(Nat)
  BY DEF Types
<1>1. LoudCalls \in Seq(Nat) /\ Len(LoudCalls) \in 0 .. Len(calls)
  BY <1>0, CallFacts
<1>2. ASSUME NEW n \in 1 .. Len(LoudCalls)
      PROVE  /\ L(n) \in Entry
             /\ L(n).kind = "failed"
             /\ L(n).by = LoudCalls[Len(LoudCalls) - n + 1]
             /\ L(n).open = SubSeq(LoudCalls, 1, Len(LoudCalls) - n)
  <2>1. Len(LoudCalls) - n \in 0 .. Len(LoudCalls) /\ Len(LoudCalls) - n + 1 \in 1 .. Len(LoudCalls)
    BY <1>0, <1>1
  <2>2. /\ calls[Len(LoudCalls) - n + 1] \in 1 .. Len(list)
        /\ calls[Len(LoudCalls) - n + 1] = LoudCalls[Len(LoudCalls) - n + 1]
    BY <2>1, CallFacts
  <2>3. SubSeq(calls, 1, Len(LoudCalls) - n) = SubSeq(LoudCalls, 1, Len(LoudCalls) - n)
    <3>1. Len(LoudCalls) - n \in 0 .. Len(calls)
      BY <1>0, <1>1, <2>1
    <3>2. \A k \in 1 .. Len(LoudCalls) - n : LoudCalls[k] = calls[k]
      BY <1>1, <2>1, CallFacts
    <3>. QED BY <1>0, <1>1, <2>1, <3>1, <3>2, PrefixFacts, SameSeq
  <2>4. SubSeq(calls, 1, Len(LoudCalls) - n) \in Seq(Nat)
    BY <1>1, <2>1, <2>3, PrefixFacts
  <2>5. "failed" \in Kinds /\ NoNote \in Note /\ list' = list
    BY DEF Kinds, Note, Fail
  <2>6. calls[Len(LoudCalls) - n + 1] \in Nat
    BY <1>0, <2>2
  <2>7. list' \in Seq(Instruction) /\ calls[Len(LoudCalls) - n + 1] \in 1 .. Len(list')
    BY <1>0, <2>2, <2>5
  <2>8. /\ L(n) \in Entry
        /\ L(n).kind = "failed"
        /\ L(n).by = calls[Len(LoudCalls) - n + 1]
        /\ L(n).open = SubSeq(calls, 1, Len(LoudCalls) - n)
    <3>1. ASSUME NEW by \in Nat, NEW open \in Seq(Nat), by \in 1 .. Len(list')
          PROVE  /\ Line("failed", by, 0, NoNote, open) \in Entry
                 /\ Line("failed", by, 0, NoNote, open).kind = "failed"
                 /\ Line("failed", by, 0, NoNote, open).by = by
                 /\ Line("failed", by, 0, NoNote, open).open = open
      BY <2>5, <2>7, <3>1, LineType
    <3>. QED BY <2>4, <2>6, <2>7, <3>1
  <2>. QED BY <2>2, <2>3, <2>8
<1>3. lines \in Seq(Entry) /\ Len(lines) = Len(LoudCalls)
  <2>1. DOMAIN LoudCalls = 1 .. Len(LoudCalls) /\ Len(LoudCalls) \in Nat
    BY <1>1
  <2>. QED BY <1>2, <2>1
<1>4. ASSUME NEW n \in 1 .. Len(LoudCalls) PROVE lines[n] = L(n)
  BY <1>1
<1>5. Record(lines)
  BY DEF Fail
<1>6. CASE run.logging = "on"
  <2>1. /\ Len(stream') = Len(stream) + Len(lines)
        /\ \A k \in 1 .. Len(stream) : stream'[k] = stream[k]
        /\ \A n \in 1 .. Len(lines) : stream'[Len(stream) + n] = lines[n]
    BY <1>0, <1>3, <1>5, <1>6, ManyLines
  <2>. QED BY <1>2, <1>3, <1>4, <1>6, <2>1
<1>7. CASE run.logging # "on"
  BY <1>5, <1>7 DEF Record
<1>. QED BY <1>6, <1>7

(* Lines that are no invokes leave the order of the invokes alone.         *)
LEMMA InvokesKept ==
  ASSUME Types, CallsAreNested, InvokesAreOrdered, Runtime,
         Len(stream') \in Nat, Len(stream') >= Len(stream),
         \A k \in 1 .. Len(stream) : stream'[k] = stream[k]
  PROVE  /\ \A k \in 1 .. Len(stream) : OrderedAt(k)'
         /\ \A i \in Nat : Invoked(i, Len(stream)) => Invoked(i, Len(stream))'
<1>0. stream \in Seq(Entry) /\ list \in Seq(Instruction)
  BY DEF Types
<1>1. ASSUME NEW k \in 0 .. Len(stream), NEW i \in Nat, Invoked(i, k)
      PROVE  Invoked(i, k)'
  <2>1. PICK j \in 1 .. k : stream[j].kind = "invoke" /\ stream[j].by = i
    BY <1>1 DEF Invoked
  <2>2. j \in 1 .. Len(stream)
    BY <1>0
  <2>. QED BY <2>1, <2>2 DEF Invoked
<1>2. ASSUME NEW i \in Nat, Invoked(i, Len(stream))
      PROVE  Invoked(i, Len(stream))'
  <2>1. PICK j \in 1 .. Len(stream) : stream[j].kind = "invoke" /\ stream[j].by = i
    BY <1>2 DEF Invoked
  <2>2. j \in 1 .. Len(stream')
    BY <1>0
  <2>. QED BY <2>1, <2>2 DEF Invoked
<1>3. ASSUME NEW k \in 1 .. Len(stream)
      PROVE  OrderedAt(k)'
  <2> SUFFICES ASSUME stream[k].kind = "invoke"
               PROVE  OrderedAt(k)'
    BY DEF OrderedAt
  <2> DEFINE b == stream[k].by
  <2>1. /\ b \in 1 .. Len(list)
        /\ stream[k].program = list[b].program
        /\ ~IsSilent(b)
        /\ \A j \in 1 .. k - 1 : stream[j].kind = "invoke" => stream[j].by < b
        /\ \A i \in 1 .. b - 1 : IsSilent(i) \/ Invoked(i, k - 1)
    BY DEF InvokesAreOrdered, OrderedAt
  <2>2. b \in 1 .. Len(list') /\ list'[b] = list[b] /\ ~IsSilent(b)'
    BY <1>0, <2>1, ListGrows
  <2>3. \A j \in 1 .. k - 1 : stream'[j] = stream[j]
    BY <1>0
  <2>4. ASSUME NEW i \in 1 .. b - 1 PROVE IsSilent(i)' \/ Invoked(i, k - 1)'
    <3>1. i \in 1 .. Len(list) /\ i \in Nat
      BY <1>0, <2>1
    <3>2. k - 1 \in 0 .. Len(stream)
      BY <1>0
    <3>3. IsSilent(i) \/ Invoked(i, k - 1)
      BY <2>1
    <3>4. Invoked(i, k - 1) => Invoked(i, k - 1)'
      BY <1>1, <3>1, <3>2
    <3>. QED BY <3>1, <3>3, <3>4, ListGrows
  <2>. QED BY <2>1, <2>2, <2>3, <2>4 DEF OrderedAt
<1>. QED BY <1>2, <1>3

(* The invokes stay in order: a call's is that of the latest instruction.  *)
LEMMA InvokesInductive ==
  ASSUME Types, CallsAreNested, InvokesAreOrdered, Runtime
  PROVE  InvokesAreOrdered'
<1>0. stream \in Seq(Entry) /\ list \in Seq(Instruction) /\ calls \in Seq(Nat)
  BY DEF Types
<1>1. stream' \in Seq(Entry)
  BY RuntimeTypes DEF Types
(* The second conjunct, where only the lines change or logging is over.    *)
<1>2. ASSUME Len(stream') >= Len(stream),
             \A k \in 1 .. Len(stream) : stream'[k] = stream[k],
             \A k \in Len(stream) + 1 .. Len(stream') : stream'[k].kind # "invoke",
             \/ phase' = "running" /\ run'.logging = "on" =>
                   list' = list /\ phase = "running" /\ run.logging = "on"
      PROVE  InvokesAreOrdered'
  <2>1. /\ \A k \in 1 .. Len(stream) : OrderedAt(k)'
        /\ \A i \in Nat : Invoked(i, Len(stream)) => Invoked(i, Len(stream))'
    BY <1>1, <1>2, InvokesKept
  <2>2. \A k \in 1 .. Len(stream') : k \in 1 .. Len(stream) \/ k \in Len(stream) + 1 .. Len(stream')
    BY <1>0, <1>1
  <2>3. \A k \in 1 .. Len(stream') : OrderedAt(k)'
    BY <1>2, <2>1, <2>2 DEF OrderedAt
  <2>4. ASSUME phase' = "running", run'.logging = "on", NEW i \in 1 .. Len(list')
        PROVE  IsSilent(i)' \/ Invoked(i, Len(stream))'
    <3>1. list' = list /\ i \in 1 .. Len(list) /\ i \in Nat
      BY <1>2, <2>4
    <3>2. IsSilent(i) \/ Invoked(i, Len(stream))
      BY <1>2, <2>4, <3>1 DEF InvokesAreOrdered
    <3>. QED BY <2>1, <3>1, <3>2 DEF IsSilent
  <2>. QED BY <2>3, <2>4 DEF InvokesAreOrdered
<1>3. ASSUME NEW p \in run.cast, NEW w \in Works[p], Invoke(p, w)
      PROVE  InvokesAreOrdered'
  <2>1. CASE stream' = stream /\ run.logging # "on"
    BY <1>0, <1>2, <1>3, <2>1 DEF Invoke
  <2>2. CASE stream' = stream /\ p \in Silent
    <3>1. /\ \A k \in 1 .. Len(stream) : OrderedAt(k)'
          /\ \A i \in Nat : Invoked(i, Len(stream)) => Invoked(i, Len(stream))'
      BY <1>0, <2>2, InvokesKept
    <3>2. ASSUME phase' = "running", run'.logging = "on", NEW i \in 1 .. Len(list')
          PROVE  IsSilent(i)' \/ Invoked(i, Len(stream))'
      <4>1. CASE i \in 1 .. Len(list)
        <5>1. IsSilent(i) \/ Invoked(i, Len(stream))
          BY <1>3, <3>2, <4>1 DEF InvokesAreOrdered, Invoke
        <5>. QED BY <3>1, <4>1, <5>1, ListGrows
      <4>2. CASE i = Len(list) + 1
        BY <1>3, <2>2, <4>2, InvokeFacts DEF IsSilent
      <4>. QED BY <1>0, <1>3, <4>1, <4>2, InvokeFacts
    <3>. QED BY <2>2, <3>1, <3>2 DEF InvokesAreOrdered
  <2>3. CASE /\ p \notin Silent
             /\ run.logging = "on"
             /\ Len(stream') = Len(stream) + 1
             /\ \A k \in 1 .. Len(stream) : stream'[k] = stream[k]
             /\ stream'[Len(stream) + 1].kind = "invoke"
             /\ stream'[Len(stream) + 1].by = Len(list) + 1
             /\ stream'[Len(stream) + 1].program = p
    <3>0. Len(stream) \in Nat /\ Len(list) \in Nat /\ phase = "running"
      BY <1>0, <1>3 DEF Invoke
    <3>1. /\ \A k \in 1 .. Len(stream) : OrderedAt(k)'
          /\ \A i \in Nat : Invoked(i, Len(stream)) => Invoked(i, Len(stream))'
      <4>1. Len(stream') \in Nat /\ Len(stream') >= Len(stream)
        BY <2>3, <3>0
      <4>. QED BY <2>3, <4>1, InvokesKept
    <3>2. Len(list') = Len(list) + 1 /\ list'[Len(list) + 1].program = p
      BY <1>3, InvokeFacts
    <3>3. ASSUME NEW i \in 1 .. Len(list)
          PROVE  \/ IsSilent(i)'
                 \/ \E j \in 1 .. Len(stream) : stream'[j].kind = "invoke" /\ stream'[j].by = i
      <4>1. IsSilent(i) \/ Invoked(i, Len(stream))
        BY <2>3, <3>0 DEF InvokesAreOrdered
      <4>. QED BY <2>3, <4>1, ListGrows DEF Invoked
    <3>4. ASSUME NEW j \in 1 .. Len(stream), stream'[j].kind = "invoke"
          PROVE  stream'[j].by < Len(list) + 1
      <4>1. stream[j].by \in 1 .. Len(list)
        BY <2>3, <3>4 DEF InvokesAreOrdered, OrderedAt
      <4>. QED BY <2>3, <3>0, <4>1
    <3>5. ASSUME NEW n \in Nat, n = Len(stream) + 1
          PROVE  OrderedAt(n)'
      <4>1. /\ n - 1 = Len(stream) /\ stream'[n].kind = "invoke" /\ stream'[n].by = Len(list) + 1
            /\ stream'[n].program = p /\ Len(list) + 1 - 1 = Len(list)
        BY <2>3, <3>0, <3>5
      <4>2. \A i \in 1 .. Len(list) : IsSilent(i)' \/ Invoked(i, n - 1)'
        BY <3>3, <4>1 DEF Invoked
      <4>3. ~IsSilent(stream[n].by)'
        BY <2>3, <3>2, <4>1 DEF IsSilent
      <4>4. stream'[n].by \in 1 .. Len(list') /\ stream'[n].program = list'[stream'[n].by].program
        BY <3>0, <3>2, <4>1
      <4>. QED BY <3>4, <4>1, <4>2, <4>3, <4>4 DEF OrderedAt
    <3>6. ASSUME NEW i \in 1 .. Len(list')
          PROVE  IsSilent(i)' \/ Invoked(i, Len(stream))'
      <4>1. \A j \in 1 .. Len(stream) + 1 : j \in 1 .. Len(stream')
        BY <2>3, <3>0
      <4>2. CASE i \in 1 .. Len(list)
        BY <3>0, <3>3, <4>1, <4>2 DEF Invoked
      <4>3. CASE i = Len(list) + 1
        <5>1. Len(stream) + 1 \in 1 .. Len(stream')
          BY <3>0, <4>1
        <5>. QED BY <2>3, <4>3, <5>1 DEF Invoked
      <4>. QED BY <3>0, <3>2, <4>2, <4>3
    <3>7. ASSUME NEW k \in 1 .. Len(stream')
          PROVE  OrderedAt(k)'
      <4>1. k \in 1 .. Len(stream) \/ (k \in Nat /\ k = Len(stream) + 1)
        BY <2>3, <3>0
      <4>. QED BY <3>1, <3>5, <4>1
    <3>. QED BY <3>6, <3>7 DEF InvokesAreOrdered
  <2>. QED BY <1>3, <2>1, <2>2, <2>3, InvokeWrites
<1>4. ASSUME NEW kind \in {"success", "note"}, NEW note \in Note, NEW open \in Seq(Nat),
             UNCHANGED <<list, run, phase>>, calls # <<>>,
             Record(Unless(IsSilent(Last(calls)), Line(kind, Last(calls), 0, note, open)))
      PROVE  InvokesAreOrdered'
  <2>1. \/ stream' = stream
        \/ /\ Len(stream') = Len(stream) + 1
           /\ \A k \in 1 .. Len(stream) : stream'[k] = stream[k]
           /\ stream'[Len(stream) + 1].kind # "invoke"
    BY <1>4, CallWrites
  <2>. QED BY <1>0, <1>2, <1>4, <2>1
<1>5. ASSUME NEW note \in UNION {Notes[p] : p \in run.cast}, Log(note)
      PROVE  InvokesAreOrdered'
  <2>1. note \in Note
    BY ProgramAssumption DEF Types, Note
  <2>2. Record(Unless(IsSilent(Last(calls)), Line("note", Last(calls), 0, note, calls)))
    BY <1>5 DEF Log, Unless
  <2>. QED BY <1>0, <1>4, <1>5, <2>1, <2>2 DEF Log
<1>6. CASE Return
  <2>1. NoNote \in Note /\ calls' \in Seq(Nat)
    BY <1>6, RuntimeTypes DEF Note, Types
  <2>. QED BY <1>4, <1>6, <2>1 DEF Return
<1>7. CASE Fail
  <2>1. LoudCalls \in Seq(Nat)
    BY CallFacts
  <2>2. CASE stream' = stream
    BY <1>0, <1>2, <1>7, <2>2 DEF Fail
  <2>3. CASE stream' # stream
    <3>1. /\ Len(stream') = Len(stream) + Len(LoudCalls)
          /\ \A k \in 1 .. Len(stream) : stream'[k] = stream[k]
          /\ \A n \in 1 .. Len(LoudCalls) : stream'[Len(stream) + n].kind = "failed"
      BY <1>7, <2>3, FailWrites
    <3>2. ASSUME NEW k \in Len(stream) + 1 .. Len(stream')
          PROVE  stream'[k].kind # "invoke"
      <4>1. k - Len(stream) \in 1 .. Len(LoudCalls) /\ k = Len(stream) + (k - Len(stream))
        BY <1>0, <2>1, <3>1
      <4>. QED BY <3>1, <4>1
    <3>3. /\ run'.logging = run.logging
      BY <1>7 DEF Fail, Types
    <3>. QED BY <1>0, <1>2, <1>7, <2>1, <3>1, <3>2, <3>3 DEF Fail
  <2>. QED BY <2>2, <2>3
<1>8. CASE Cut
  <2>1. /\ stream' = Append(stream, Line("truncated", None, 0, NoNote, LoudCalls))
        /\ run'.logging = "cut"
    BY <1>8 DEF Cut, Types
  <2>2. Line("truncated", None, 0, NoNote, LoudCalls).kind = "truncated"
    BY DEF Line
  <2>3. /\ Len(stream') = Len(stream) + 1
        /\ \A k \in 1 .. Len(stream) : stream'[k] = stream[k]
        /\ stream'[Len(stream) + 1].kind = "truncated"
    BY <1>0, <2>1, <2>2
  <2>. QED BY <1>0, <1>2, <2>1, <2>3
<1>9. ASSUME NEW rest, Settle(rest)
      PROVE  InvokesAreOrdered'
  BY <1>0, <1>2, <1>9 DEF Settle
<1>. QED BY <1>3, <1>5, <1>6, <1>7, <1>8, <1>9 DEF Runtime

(* The calls that write lines, after a call and after a return.            *)
LEMMA LoudAfterInvoke ==
  ASSUME Types, CallsAreNested, NEW p \in run.cast, NEW w \in Works[p], Invoke(p, w)
  PROVE  /\ LoudCalls = calls
         /\ calls' = Append(calls, Len(list) + 1)
         /\ LoudCalls' = IF p \in Silent THEN calls ELSE calls'
<1>0. calls \in Seq(Nat) /\ list \in Seq(Instruction)
  BY DEF Types
<1>1. LoudCalls = calls
  BY <1>0, InvokeFacts DEF LoudCalls, Last
<1>2. calls' = Append(calls, Len(list) + 1)
  BY DEF Invoke
<1>3. calls' # <<>> /\ Last(calls') = Len(list) + 1 /\ Front(calls') = calls
  <2>1. calls' \in Seq(Nat) /\ calls' # <<>> /\ Len(calls') = Len(calls) + 1
    BY <1>0, <1>2
  <2>2. /\ Front(calls') \in Seq(Nat) /\ Len(Front(calls')) = Len(calls)
        /\ \A n \in 1 .. Len(calls) : Front(calls')[n] = calls'[n] /\ calls'[n] = calls[n]
        /\ Last(calls') = calls'[Len(calls) + 1]
    <3>1. /\ Front(calls') \in Seq(Nat) /\ Len(Front(calls')) = Len(calls') - 1
          /\ \A n \in 1 .. Len(calls') - 1 : Front(calls')[n] = calls'[n]
          /\ Last(calls') = calls'[Len(calls')]
      BY <2>1, FrontFacts
    <3>2. Len(calls') - 1 = Len(calls)
      BY <1>0, <2>1
    <3>3. \A n \in 1 .. Len(calls) : calls'[n] = calls[n]
      BY <1>0, <1>2
    <3>. QED BY <2>1, <3>1, <3>2, <3>3
  <2>3. Front(calls') = calls
    BY <1>0, <2>2, SameSeq
  <2>. QED BY <1>0, <1>2, <2>1, <2>2, <2>3
<1>4. IsSilent(Last(calls))' <=> p \in Silent
  BY <1>3, InvokeFacts DEF IsSilent
<1>. QED BY <1>1, <1>2, <1>3, <1>4 DEF LoudCalls

(* The calls that write lines after the innermost has returned.            *)
LEMMA LoudAfterReturn ==
  ASSUME Types, CallsAreNested, Return
  PROVE  LoudCalls' = Front(calls)
<1>0. calls \in Seq(Nat) /\ calls # <<>> /\ calls' = Front(calls) /\ list' = list
  BY DEF Types, Return
<1>1. CASE calls' = <<>>
  BY <1>0, <1>1 DEF LoudCalls
<1>2. CASE calls' # <<>>
  <2>1. /\ calls' \in Seq(Nat) /\ Len(calls') = Len(calls) - 1 /\ Len(calls) \in Nat
        /\ \A n \in 1 .. Len(calls) - 1 : calls'[n] = calls[n]
    BY <1>0, FrontFacts
  <2>2. Last(calls') = calls'[Len(calls) - 1] /\ Len(calls) - 1 \in Nat \ {0}
    BY <1>2, <2>1, FrontFacts
  <2>3. ~IsSilent(calls[Len(calls) - 1])
    BY <2>1, <2>2 DEF CallsAreNested
  <2>4. ~IsSilent(Last(calls))'
    BY <1>0, <2>1, <2>2, <2>3, SMTT(30) DEF IsSilent
  <2>. QED BY <1>0, <2>4 DEF LoudCalls
<1>. QED BY <1>1, <1>2

(* Lines already written keep what they say of the open calls.             *)
LEMMA OpensKept ==
  ASSUME Types, OpensFollow,
         Len(stream') \in Nat, Len(stream') >= Len(stream),
         \A k \in 1 .. Len(stream) : stream'[k] = stream[k]
  PROVE  /\ \A k \in 1 .. Len(stream) : OpensAt(k)'
         /\ \A k \in 0 .. Len(stream) : Open(k)' = Open(k)
<1>0. stream \in Seq(Entry)
  BY DEF Types
<1>1. \A k \in 0 .. Len(stream) : Open(k)' = Open(k)
  BY <1>0 DEF Open
<1>2. ASSUME NEW k \in 1 .. Len(stream) PROVE OpensAt(k)'
  <2>1. k - 1 \in 0 .. Len(stream) /\ stream'[k] = stream[k]
    BY <1>0
  <2>2. Open(k - 1)' = Open(k - 1)
    BY <1>1, <2>1
  <2>3. OpensAt(k)
    BY DEF OpensFollow
  <2>. QED BY <2>1, <2>2, <2>3 DEF OpensAt
<1>. QED BY <1>1, <1>2

(* A new line takes up the open calls where the last one left them.        *)
LEMMA OpensInductive ==
  ASSUME Types, CallsAreNested, OpensFollow, Runtime
  PROVE  OpensFollow'
<1>0. stream \in Seq(Entry) /\ list \in Seq(Instruction) /\ calls \in Seq(Nat) /\ Len(stream) \in Nat
  BY DEF Types
<1>1. stream' \in Seq(Entry) /\ LoudCalls \in Seq(Nat)
  BY RuntimeTypes, CallFacts DEF Types
<1>2. ASSUME stream' = stream,
             phase' = "running" /\ run'.logging = "on" =>
                LoudCalls' = LoudCalls /\ phase = "running" /\ run.logging = "on"
      PROVE  OpensFollow'
  <2>1. /\ \A k \in 1 .. Len(stream) : OpensAt(k)'
        /\ \A k \in 0 .. Len(stream) : Open(k)' = Open(k)
    BY <1>0, <1>2, OpensKept
  <2>. QED BY <1>0, <1>2, <2>1 DEF OpensFollow
(* One line, and the calls it leaves open.                                 *)
<1>3. ASSUME Len(stream') = Len(stream) + 1,
             \A k \in 1 .. Len(stream) : stream'[k] = stream[k],
             NEW line \in Entry, stream'[Len(stream) + 1] = line,
             phase = "running", run.logging = "on",
             phase' = "running" /\ run'.logging = "on" => line.open = LoudCalls',
             /\ line.kind = "invoke" => line.open = Append(LoudCalls, line.by)
             /\ line.kind \in {"success", "failed", "note"} =>
                   LoudCalls # <<>> /\ line.by = Last(LoudCalls)
             /\ line.kind \in {"success", "failed"} => line.open = Front(LoudCalls)
             /\ line.kind = "note" => line.open = LoudCalls
      PROVE  OpensFollow'
  <2>1. /\ \A k \in 1 .. Len(stream) : OpensAt(k)'
        /\ \A k \in 0 .. Len(stream) : Open(k)' = Open(k)
    <3>1. Len(stream') \in Nat /\ Len(stream') >= Len(stream)
      BY <1>0, <1>3
    <3>. QED BY <1>3, <3>1, OpensKept
  <2>2. Open(Len(stream)) = LoudCalls
    BY <1>3 DEF OpensFollow
  <2>3. ASSUME NEW n \in Nat, n = Len(stream) + 1
        PROVE  OpensAt(n)' /\ Open(n)' = line.open
    <3>1. n - 1 = Len(stream) /\ n - 1 \in 0 .. Len(stream) /\ n # 0
      BY <1>0, <2>3
    <3>2. Open(n - 1)' = LoudCalls
      BY <2>1, <2>2, <3>1
    <3>3. stream'[n] = line
      BY <1>3, <2>3
    <3>. QED BY <1>3, <3>1, <3>2, <3>3 DEF OpensAt, Open
  <2>4. ASSUME NEW k \in 1 .. Len(stream') PROVE OpensAt(k)'
    <3>1. k \in 1 .. Len(stream) \/ (k \in Nat /\ k = Len(stream) + 1)
      BY <1>0, <1>3
    <3>. QED BY <2>1, <2>3, <3>1
  <2>5. phase' = "running" /\ run'.logging = "on" => Open(Len(stream))' = LoudCalls'
    <3>1. Len(stream') \in Nat /\ Len(stream') = Len(stream) + 1
      BY <1>0, <1>3
    <3>2. Open(Len(stream))' = line.open
      BY <1>0, <1>3, <3>1 DEF Open
    <3>. QED BY <1>3, <3>2
  <2>. QED BY <2>4, <2>5 DEF OpensFollow
<1>4. ASSUME NEW p \in run.cast, NEW w \in Works[p], Invoke(p, w)
      PROVE  OpensFollow'
  <2>1. /\ LoudCalls = calls /\ calls' = Append(calls, Len(list) + 1)
        /\ LoudCalls' = IF p \in Silent THEN calls ELSE calls'
        /\ phase = "running" /\ run' = run
    BY <1>4, LoudAfterInvoke DEF Invoke
  <2>2. CASE stream' = stream /\ (p \in Silent \/ run.logging # "on")
    BY <1>2, <2>1, <2>2
  <2>3. CASE stream' # stream
    <3>1. /\ p \notin Silent
          /\ run.logging = "on"
          /\ Len(stream') = Len(stream) + 1
          /\ \A k \in 1 .. Len(stream) : stream'[k] = stream[k]
          /\ stream'[Len(stream) + 1].kind = "invoke"
          /\ stream'[Len(stream) + 1].by = Len(list) + 1
          /\ stream'[Len(stream) + 1].open = calls'
      BY <1>4, <2>3, InvokeWrites
    <3>2. stream'[Len(stream) + 1] \in Entry
      BY <1>0, <1>1, <3>1
    <3>. QED BY <1>3, <2>1, <3>1, <3>2
  <2>. QED BY <1>4, <2>2, <2>3, InvokeWrites
<1>5. ASSUME NEW note \in UNION {Notes[p] : p \in run.cast}, Log(note)
      PROVE  OpensFollow'
  <2>1. note \in Note
    BY ProgramAssumption DEF Types, Note
  <2>2. Record(Unless(IsSilent(Last(calls)), Line("note", Last(calls), 0, note, calls)))
    BY <1>5 DEF Log, Unless
  <2>3. /\ list' = list /\ calls' = calls /\ calls # <<>> /\ ~IsSilent(Last(calls))
        /\ phase = "running" /\ run' = run
    BY <1>5 DEF Log
  <2>4. LoudCalls = calls /\ LoudCalls' = calls
    BY <2>3 DEF LoudCalls, IsSilent
  <2>5. CASE run.logging # "on"
    <3>1. stream' = stream
      BY <1>0, <2>1, <2>2, <2>3, <2>5, CallWrites
    <3>. QED BY <1>2, <2>3, <2>4, <2>5, <3>1
  <2>6. CASE run.logging = "on"
    <3>1. /\ Len(stream') = Len(stream) + 1
          /\ \A k \in 1 .. Len(stream) : stream'[k] = stream[k]
          /\ stream'[Len(stream) + 1].kind = "note"
          /\ stream'[Len(stream) + 1].by = Last(calls)
          /\ stream'[Len(stream) + 1].open = calls
      BY <1>0, <2>1, <2>2, <2>3, <2>6, CallWrites
    <3>2. stream'[Len(stream) + 1] \in Entry
      BY <1>0, <1>1, <3>1
    <3>. QED BY <1>3, <2>3, <2>4, <2>6, <3>1, <3>2
  <2>. QED BY <2>5, <2>6
<1>6. CASE Return
  <2>1. NoNote \in Note /\ calls' \in Seq(Nat)
    BY <1>6, RuntimeTypes DEF Note, Types
  <2>2. /\ list' = list /\ calls' = Front(calls) /\ calls # <<>>
        /\ phase = "running" /\ run' = run
        /\ Record(Unless(IsSilent(Last(calls)), Line("success", Last(calls), 0, NoNote, calls')))
    BY <1>6 DEF Return
  <2>3. LoudCalls' = Front(calls)
    BY <1>6, LoudAfterReturn
  <2>4. LoudCalls = IF IsSilent(Last(calls)) THEN Front(calls) ELSE calls
    BY <2>2, CallFacts
  <2>5. CASE stream' = stream /\ (IsSilent(Last(calls)) \/ run.logging # "on")
    BY <1>2, <2>2, <2>3, <2>4, <2>5
  <2>6. CASE /\ ~IsSilent(Last(calls))
             /\ run.logging = "on"
             /\ Len(stream') = Len(stream) + 1
             /\ \A k \in 1 .. Len(stream) : stream'[k] = stream[k]
             /\ stream'[Len(stream) + 1].kind = "success"
             /\ stream'[Len(stream) + 1].by = Last(calls)
             /\ stream'[Len(stream) + 1].open = calls'
    <3>2. stream'[Len(stream) + 1] \in Entry
      BY <1>0, <1>1, <2>6
    <3>. QED BY <1>3, <2>2, <2>3, <2>4, <2>6, <3>2
  <2>. QED BY <2>1, <2>2, <2>5, <2>6, CallWrites
<1>7. CASE Fail
  <2>0. run'.logging = run.logging /\ calls' = <<>> /\ phase = "running"
    BY <1>7 DEF Fail, Types
  <2>1. LoudCalls' = <<>>
    BY <2>0 DEF LoudCalls
  <2>2. CASE run.logging # "on"
    BY <1>2, <1>7, <2>0, <2>2, FailWrites
  <2>3. CASE run.logging = "on"
    <3> DEFINE d == Len(LoudCalls)
               kept(n) == SubSeq(LoudCalls, 1, d - n)
    <3>0. d \in Nat
      BY <1>1
    <3>1. /\ Len(stream') = Len(stream) + d
          /\ \A k \in 1 .. Len(stream) : stream'[k] = stream[k]
          /\ \A n \in 1 .. d :
                /\ stream'[Len(stream) + n].kind = "failed"
                /\ stream'[Len(stream) + n].by = LoudCalls[d - n + 1]
                /\ stream'[Len(stream) + n].open = kept(n)
      BY <1>7, <2>3, FailWrites
    <3>2. /\ \A k \in 1 .. Len(stream) : OpensAt(k)'
          /\ \A k \in 0 .. Len(stream) : Open(k)' = Open(k)
      BY <1>0, <3>0, <3>1, OpensKept
    <3>3. kept(0) = LoudCalls
      BY <1>1
    <3>4. ASSUME NEW n \in 0 .. d, NEW k \in Nat, k = Len(stream) + n
          PROVE  Open(k)' = kept(n)
      <4>1. CASE n = 0
        <5>1. Open(Len(stream)) = LoudCalls
          BY <2>0, <2>3 DEF OpensFollow
        <5>2. k = Len(stream) /\ k \in 0 .. Len(stream)
          BY <1>0, <3>4, <4>1
        <5>3. Open(k)' = Open(k)
          BY <3>2, <5>2
        <5>. QED BY <3>3, <4>1, <5>1, <5>2, <5>3
      <4>2. CASE n \in 1 .. d
        BY <1>0, <3>1, <3>4, <4>2, SMTT(30) DEF Open
      <4>. QED BY <3>0, <4>1, <4>2
    <3>5. ASSUME NEW n \in 1 .. d, NEW k \in Nat, k = Len(stream) + n
          PROVE  OpensAt(k)'
      <4>1. k - 1 \in Nat /\ n - 1 \in 0 .. d /\ k - 1 = Len(stream) + (n - 1)
        BY <1>0, <3>0, <3>5
      <4>2. Open(k - 1)' = kept(n - 1)
        BY <3>4, <4>1
      <4>3. /\ kept(n - 1) \in Seq(Nat) /\ Len(kept(n - 1)) = d - n + 1
            /\ \A m \in 1 .. d - n + 1 : kept(n - 1)[m] = LoudCalls[m]
        <5>1. d - (n - 1) \in 0 .. Len(LoudCalls) /\ d - (n - 1) = d - n + 1
          BY <3>0
        <5>. QED BY <1>1, <5>1, PrefixFacts
      <4>4. /\ kept(n) \in Seq(Nat) /\ Len(kept(n)) = d - n
            /\ \A m \in 1 .. d - n : kept(n)[m] = LoudCalls[m]
        <5>1. d - n \in 0 .. Len(LoudCalls)
          BY <3>0
        <5>. QED BY <1>1, <5>1, PrefixFacts
      <4>5. kept(n - 1) # <<>> /\ d - n + 1 \in Nat \ {0}
        <5>1. d - n + 1 \in Nat \ {0}
          BY <3>0
        <5>2. Len(<<>>) = 0
          OBVIOUS
        <5> HIDE DEF kept, d
        <5>. QED BY <4>3, <5>1, <5>2
      <4> HIDE DEF kept, d
      <4>6. /\ Last(kept(n - 1)) = kept(n - 1)[d - n + 1]
            /\ Front(kept(n - 1)) \in Seq(Nat)
            /\ Len(Front(kept(n - 1))) = d - n
            /\ \A m \in 1 .. d - n : Front(kept(n - 1))[m] = kept(n - 1)[m]
        <5>1. \A s \in Seq(Nat) : s # <<>> =>
                 /\ Front(s) \in Seq(Nat)
                 /\ Len(Front(s)) = Len(s) - 1
                 /\ \A m \in 1 .. Len(s) - 1 : Front(s)[m] = s[m]
                 /\ Last(s) = s[Len(s)]
          BY FrontFacts
        <5>2. d - n + 1 - 1 = d - n
          BY <3>0
        <5> DEFINE s == kept(n - 1)
        <5>3. s \in Seq(Nat) /\ s # <<>> /\ Len(s) = d - n + 1
          BY <4>3, <4>5
        <5>4. /\ Front(s) \in Seq(Nat)
              /\ Len(Front(s)) = Len(s) - 1
              /\ \A m \in 1 .. Len(s) - 1 : Front(s)[m] = s[m]
              /\ Last(s) = s[Len(s)]
          BY <5>1, <5>3
        <5>5. Len(s) - 1 = d - n
          BY <3>0, <5>2, <5>3
        <5>6. Last(s) = s[d - n + 1] /\ Len(Front(s)) = d - n
          BY <5>3, <5>4, <5>5
        <5>7. \A m \in 1 .. d - n : Front(s)[m] = s[m]
          BY <5>4, <5>5
        <5>. QED BY <5>4, <5>6, <5>7
      <4>7. Last(kept(n - 1)) = LoudCalls[d - n + 1]
        BY <4>3, <4>5, <4>6
      <4>8. Front(kept(n - 1)) = kept(n)
        <5>1. \A m \in 1 .. d - n : Front(kept(n - 1))[m] = kept(n)[m]
          BY <3>0, <4>3, <4>4, <4>6
        <5>. QED BY <4>4, <4>6, <5>1, SameSeq
      <4>9. stream'[k].kind = "failed" /\ stream'[k].by = LoudCalls[d - n + 1] /\ stream'[k].open = kept(n)
        BY <3>1, <3>5
      <4>. QED BY <4>2, <4>5, <4>7, <4>8, <4>9 DEF OpensAt
    <3>6. ASSUME NEW k \in 1 .. Len(stream') PROVE OpensAt(k)'
      <4>1. k \in 1 .. Len(stream) \/ (k \in Nat /\ k - Len(stream) \in 1 .. d /\ k = Len(stream) + (k - Len(stream)))
        BY <1>0, <3>0, <3>1
      <4>. QED BY <3>2, <3>5, <4>1
    <3>7. Open(Len(stream))' = <<>>
      <4>1. kept(d) = <<>>
        BY <1>1, <3>0
      <4>2. \A k \in Nat : k = Len(stream) + d => Open(k)' = <<>>
        BY <3>0, <3>4, <4>1
      <4>3. Len(stream') \in Nat /\ Len(stream') = Len(stream) + d
        BY <1>0, <3>0, <3>1
      <4>. QED BY <4>2, <4>3 DEF Open
    <3>. QED BY <2>1, <3>6, <3>7 DEF OpensFollow
  <2>. QED BY <2>2, <2>3
<1>8. CASE Cut
  <2>1. /\ stream' = Append(stream, Line("truncated", None, 0, NoNote, LoudCalls))
        /\ run'.logging = "cut" /\ phase = "running" /\ run.logging = "on"
    BY <1>8 DEF Cut, Types
  <2> DEFINE line == Line("truncated", None, 0, NoNote, LoudCalls)
  <2>2. line.kind = "truncated"
    BY DEF Line
  <2>3. /\ Len(stream') = Len(stream) + 1
        /\ \A k \in 1 .. Len(stream) : stream'[k] = stream[k]
        /\ stream'[Len(stream) + 1] = line
    BY <1>0, <2>1
  <2>4. line \in Entry
    BY <1>0, <1>1, <2>3
  <2>. QED BY <1>3, <2>1, <2>2, <2>3, <2>4
<1>9. ASSUME NEW rest, Settle(rest)
      PROVE  OpensFollow'
  BY <1>2, <1>9 DEF Settle
<1>. QED BY <1>4, <1>5, <1>6, <1>7, <1>8, <1>9 DEF Runtime

-----------------------------------------------------------------------------
(* parse_instructions.                                                     *)

(* While the transaction runs the parser rests, and the other way round.   *)
LEMMA RuntimeRuns ==
  Runtime => phase = "running" /\ phase' \in {"running", "parsing"} /\ UNCHANGED parser
  BY DEF Runtime, Invoke, Log, Return, Fail, Cut, Settle

(* The parser runs after the transaction, which it leaves alone.           *)
LEMMA ParserRuns ==
  Parser => phase # "running" /\ phase' # "running" /\ UNCHANGED runtime
  BY DEF Parser, ParseInstruction, StartAttaching, AttachLine, AttachEnd, Exit, AttachCut,
         AttachOpen, AttachClose, AttachBody

(* What holds of the runtime is kept by every step.                        *)
LEMMA RuntimeInvInductive ==
  ASSUME Types, RuntimeInv, Runtime \/ Parser \/ UNCHANGED lvars
  PROVE  RuntimeInv'
<1>1. CASE Runtime
  BY <1>1, NestedInductive, CallersInductive, InvokesInductive, OpensInductive DEF RuntimeInv
<1>2. ASSUME UNCHANGED runtime, phase' = "running" => phase = "running"
      PROVE  RuntimeInv'
  BY <1>2 DEF RuntimeInv, runtime, CallsAreNested, CallersAreBelow, InvokesAreOrdered, OrderedAt,
              Invoked, OpensFollow, OpensAt, Open, IsSilent, LoudCalls
<1>. QED BY <1>1, <1>2, ParserRuns DEF lvars

(* The pops: what is left of the stack is lower, what is popped is not.    *)
LEMMA OutrankingFacts ==
  ASSUME Types, StackIsPath, NEW h \in Nat
  PROVE  /\ Outranking(h) \in Seq(Nat)
         /\ Len(Outranking(h)) <= Len(stack)
         /\ \A n \in 1 .. Len(Outranking(h)) :
               Outranking(h)[n] = stack[n] /\ parsed[stack[n]].height < h
         /\ \A n \in Len(Outranking(h)) + 1 .. Len(stack) : parsed[stack[n]].height >= h
<1> DEFINE kept == {n \in DOMAIN stack : parsed[stack[n]].height < h}
<1>0. /\ stack \in Seq(Nat) /\ parsed \in Seq(Parsed) /\ DOMAIN stack = 1 .. Len(stack)
      /\ Len(stack) \in Nat
  BY DEF Types
<1>1. \A n \in 1 .. Len(stack) : stack[n] \in 1 .. Len(parsed) /\ parsed[stack[n]].height \in Nat
  <2>1. ASSUME NEW n \in 1 .. Len(stack)
        PROVE  stack[n] \in 1 .. Len(parsed) /\ parsed[stack[n]].height \in Nat
    <3>1. stack[n] \in 1 .. Len(parsed)
      BY DEF StackIsPath
    <3>2. parsed[stack[n]] \in Parsed
      BY <1>0, <3>1
    <3>. QED BY <3>1, <3>2 DEF Parsed
  <2>. QED BY <2>1
<1>2. CASE kept = {}
  <2>1. Outranking(h) = <<>>
    BY <1>2 DEF Outranking
  <2>. QED BY <1>0, <1>1, <1>2, <2>1, SMTT(30)
<1>3. CASE kept # {}
  <2>1. kept \in SUBSET (1 .. Len(stack))
    BY <1>0
  <2>2. Max(kept) \in kept /\ \A n \in kept : n <= Max(kept)
    BY <1>0, <1>3, <2>1, MaxFacts
  <2>3. Outranking(h) = SubSeq(stack, 1, Max(kept))
    BY <1>3 DEF Outranking
  <2>4. PICK top \in 1 .. Len(stack) :
           /\ top = Max(kept)
           /\ parsed[stack[top]].height < h
           /\ \A n \in 1 .. Len(stack) : parsed[stack[n]].height < h => n <= top
    BY <1>0, <2>1, <2>2
  <2>5. /\ Outranking(h) \in Seq(Nat)
        /\ Len(Outranking(h)) = top
        /\ \A n \in 1 .. top : Outranking(h)[n] = stack[n]
    <3>1. top \in 0 .. Len(stack)
      BY <1>0
    <3>2. Outranking(h) = SubSeq(stack, 1, top)
      BY <2>3, <2>4
    <3>3. /\ SubSeq(stack, 1, top) \in Seq(Nat)
          /\ Len(SubSeq(stack, 1, top)) = top
          /\ \A n \in 1 .. top : SubSeq(stack, 1, top)[n] = stack[n]
      <4> HIDE DEF kept
      <4>. QED BY <1>0, <3>1, PrefixFacts
    <3>. QED BY <3>2, <3>3
  <2>6. ASSUME NEW n \in 1 .. top PROVE parsed[stack[n]].height < h
    <3>1. CASE n = top
      BY <2>4, <3>1
    <3>2. CASE n # top
      <4>1. n \in 1 .. top - 1 /\ n \in 1 .. Len(stack)
        BY <1>0, <3>2
      <4>2. stack[n] < stack[top] /\ stack[top] \in stack[n] + 1 .. Len(parsed)
        BY <1>0, <1>1, <4>1 DEF StackIsPath
      <4>3. parsed[stack[top]].height > parsed[stack[n]].height
        BY <4>1, <4>2 DEF StackIsPath
      <4>. QED BY <1>1, <2>4, <4>1, <4>3, SMTT(30)
    <3>. QED BY <3>1, <3>2
  <2>7. ASSUME NEW n \in top + 1 .. Len(stack) PROVE parsed[stack[n]].height >= h
    <3>1. n \in 1 .. Len(stack) /\ ~(n <= top)
      BY <1>0
    <3>. QED BY <1>1, <2>4, <3>1
  <2>. QED BY <1>0, <2>5, <2>6, <2>7
<1>. QED BY <1>2, <1>3

(* What one turn of the loop does.                                         *)
LEMMA ParseFacts ==
  ASSUME Types, ParsedFaithfully, StackIsPath, ParseInstruction,
         NEW idx \in Nat, idx = Len(parsed) + 1,
         NEW above, above = Outranking(Height(idx))
  PROVE  /\ idx \in 1 .. Len(list)
         /\ Height(idx) \in Nat \ {0}
         /\ above \in Seq(Nat)
         /\ Len(above) \in 0 .. Len(stack)
         /\ \A n \in 1 .. Len(above) :
               above[n] = stack[n] /\ parsed[stack[n]].height < Height(idx)
         /\ \A n \in Len(above) + 1 .. Len(stack) : parsed[stack[n]].height >= Height(idx)
         /\ parsed' \in Seq(Parsed)
         /\ Len(parsed') = idx
         /\ \A i \in 1 .. Len(parsed) : parsed'[i] = parsed[i]
         /\ parsed'[idx].program = list[idx].program
         /\ parsed'[idx].height = Height(idx)
         /\ parsed'[idx].parent = IF above = <<>> THEN None ELSE above[Len(above)]
         /\ parsed'[idx].logs = <<>>
         /\ stack' = Append(above, idx)
<1>0. /\ list \in Seq(Instruction) /\ parsed \in Seq(Parsed) /\ stack \in Seq(Nat)
      /\ Len(parsed) \in Nat /\ Len(stack) \in Nat
  BY DEF Types
<1>1. idx \in 1 .. Len(list)
  BY <1>0 DEF ParseInstruction
<1>2. list[idx] \in Instruction
  BY <1>0, <1>1
<1>3. Height(idx) \in Nat \ {0}
  BY <1>2 DEF Height, Instruction
<1>4. /\ above \in Seq(Nat)
      /\ Len(above) \in 0 .. Len(stack)
      /\ \A n \in 1 .. Len(above) :
            above[n] = stack[n] /\ parsed[stack[n]].height < Height(idx)
      /\ \A n \in Len(above) + 1 .. Len(stack) : parsed[stack[n]].height >= Height(idx)
  <2> DEFINE h == Height(idx)
  <2>1. h \in Nat /\ above = Outranking(h)
    BY <1>3
  <2> HIDE DEF h
  <2>2. /\ above \in Seq(Nat)
        /\ Len(above) <= Len(stack)
        /\ \A n \in 1 .. Len(above) : above[n] = stack[n] /\ parsed[stack[n]].height < h
        /\ \A n \in Len(above) + 1 .. Len(stack) : parsed[stack[n]].height >= h
    BY <2>1, OutrankingFacts
  <2>3. Len(above) \in 0 .. Len(stack)
    BY <1>0, <2>2
  <2>. QED BY <2>2, <2>3 DEF h
<1> DEFINE x == [program |-> list[idx].program, height |-> Height(idx),
                 parent |-> IF above = <<>> THEN None ELSE Last(above), logs |-> <<>>]
<1>5. parsed' = Append(parsed, x) /\ stack' = Append(above, idx)
  BY DEF ParseInstruction
<1>6. (IF above = <<>> THEN None ELSE Last(above)) \in Nat
  <2>1. above \in Seq(Nat)
    BY <1>4
  <2>2. CASE above # <<>>
    <3>1. Last(above) = above[Len(above)] /\ Len(above) \in Nat \ {0}
      BY <2>1, <2>2, FrontFacts
    <3>. QED BY <2>1, <2>2, <3>1
  <2>. QED BY <2>2 DEF None
<1>7. x \in Parsed
  BY <1>2, <1>3, <1>6 DEF Parsed, Instruction
<1>8. x.parent = IF above = <<>> THEN None ELSE above[Len(above)]
  BY <1>4, FrontFacts
<1>9. /\ parsed' \in Seq(Parsed) /\ Len(parsed') = idx /\ parsed'[idx] = x
      /\ \A i \in 1 .. Len(parsed) : parsed'[i] = parsed[i]
  BY <1>0, <1>5, <1>7
<1>. QED BY <1>1, <1>3, <1>4, <1>5, <1>8, <1>9

(* An instruction is parsed: its caller is what the pops leave on top.     *)
LEMMA ParseKeeps ==
  ASSUME LInv, ParseInstruction
  PROVE  Types' /\ ParsedFaithfully' /\ StackIsPath' /\ FramesAreOpenCalls'
         /\ ParentIsCaller' /\ LogsAreOwn'
<1> DEFINE idx == Len(parsed) + 1
           above == Outranking(Height(idx))
<1>0. /\ list \in Seq(Instruction) /\ parsed \in Seq(Parsed) /\ stack \in Seq(Nat)
      /\ Len(parsed) \in Nat /\ Len(stack) \in Nat
  BY DEF LInv, Types
<1>b. idx \in Nat /\ idx = Len(parsed) + 1 /\ above = Outranking(Height(idx))
  BY <1>0
<1> HIDE DEF idx, above
<1>1. /\ idx \in Nat
      /\ idx \in 1 .. Len(list)
      /\ Height(idx) \in Nat \ {0}
      /\ above \in Seq(Nat)
      /\ Len(above) \in 0 .. Len(stack)
      /\ \A n \in 1 .. Len(above) :
            above[n] = stack[n] /\ parsed[stack[n]].height < Height(idx)
      /\ \A n \in Len(above) + 1 .. Len(stack) : parsed[stack[n]].height >= Height(idx)
      /\ parsed' \in Seq(Parsed)
      /\ Len(parsed') = idx
      /\ \A i \in 1 .. Len(parsed) : parsed'[i] = parsed[i]
      /\ parsed'[idx].program = list[idx].program
      /\ parsed'[idx].height = Height(idx)
      /\ parsed'[idx].parent = IF above = <<>> THEN None ELSE above[Len(above)]
      /\ parsed'[idx].logs = <<>>
      /\ stack' = Append(above, idx)
  <2>1. Types /\ ParsedFaithfully /\ StackIsPath
    BY DEF LInv
  <2>. QED BY <1>b, <2>1, ParseFacts, SMTT(60)
<1>2. \A i \in Nat : Height(i)' = Height(i)
  BY DEF ParseInstruction, runtime, Height
<1>3. idx = Len(parsed) + 1
  BY <1>b
<1>4. \A i \in 1 .. Len(parsed') : i \in 1 .. Len(parsed) \/ i = idx
  BY <1>0, <1>1, <1>3
<1>5. UNCHANGED <<runtime, phase, frames, cursor, at, outcome>>
  BY DEF ParseInstruction
<1>6. Types'
  <2>1. stack' \in Seq(Nat)
    BY <1>1
  <2>. QED BY <1>1, <1>5, <2>1 DEF LInv, Types, runtime
<1>7. ParsedFaithfully'
  <2>1. phase = "parsing" /\ phase' = "parsing"
    BY DEF ParseInstruction
  <2>2. \A i \in 1 .. Len(parsed) :
           parsed[i].program = list[i].program /\ parsed[i].height = Height(i) /\ i \in Nat
    BY DEF LInv, ParsedFaithfully
  <2>3. \A i \in 1 .. Len(parsed') :
           parsed'[i].program = list[i].program /\ parsed'[i].height = Height(i)'
    BY <1>1, <1>2, <1>4, <2>2
  <2>4. Len(parsed') <= Len(list)
    BY <1>0, <1>1
  <2>. QED BY <1>5, <2>1, <2>3, <2>4 DEF ParsedFaithfully, runtime
<1>8. StackIsPath'
  <2>1. /\ Len(stack') = Len(above) + 1
        /\ stack'[Len(above) + 1] = idx
        /\ \A n \in 1 .. Len(above) : stack'[n] = stack[n] /\ n \in 1 .. Len(stack)
    <3>1. /\ Len(stack') = Len(above) + 1
          /\ stack'[Len(above) + 1] = idx
          /\ \A n \in 1 .. Len(above) : stack'[n] = above[n]
      BY <1>1
    <3>2. \A n \in 1 .. Len(above) : n \in 1 .. Len(stack)
      BY <1>0, <1>1
    <3>. QED BY <1>1, <3>1, <3>2
  <2>2. ASSUME NEW n \in 1 .. Len(stack')
        PROVE  /\ stack'[n] \in 1 .. Len(parsed')
               /\ \A m \in 1 .. n - 1 : stack'[m] < stack'[n]
               /\ \A j \in stack'[n] + 1 .. Len(parsed') :
                     parsed'[j].height > parsed'[stack'[n]].height
    <3>1. CASE n \in 1 .. Len(above)
      <4>1. /\ stack[n] \in 1 .. Len(parsed)
            /\ \A m \in 1 .. n - 1 : stack[m] < stack[n]
            /\ \A j \in stack[n] + 1 .. Len(parsed) : parsed[j].height > parsed[stack[n]].height
        BY <2>1, <3>1 DEF LInv, StackIsPath
      <4>2. stack'[n] = stack[n] /\ parsed'[stack[n]] = parsed[stack[n]]
        BY <1>1, <2>1, <3>1, <4>1
      <4>3. ASSUME NEW j \in stack'[n] + 1 .. Len(parsed')
            PROVE  parsed'[j].height > parsed'[stack'[n]].height
        <5>1. CASE j = idx
          <6>1. parsed[stack[n]].height < Height(idx)
            BY <1>1, <3>1
          <6>2. parsed[stack[n]] \in Parsed
            BY <1>0, <4>1
          <6>. QED BY <1>1, <4>2, <5>1, <6>1, <6>2 DEF Parsed
        <5>2. CASE j # idx
          <6>1. j \in stack[n] + 1 .. Len(parsed) /\ j \in 1 .. Len(parsed)
            <7>1. stack[n] \in Nat \ {0} /\ j \in stack[n] + 1 .. Len(parsed) + 1
              <8>1. Len(parsed') = Len(parsed) + 1
                BY <1>1, <1>3
              <8>. QED BY <1>0, <4>1, <4>2, <8>1, SMTT(30)
            <7>2. j # Len(parsed) + 1
              BY <1>3, <5>2
            <7>. QED BY <1>0, <7>1, <7>2, SMTT(30)
          <6>. QED BY <1>1, <4>1, <4>2, <6>1
        <5>. QED BY <5>1, <5>2
      <4>4. \A m \in 1 .. n - 1 : stack'[m] < stack'[n]
        <5>1. \A m \in 1 .. n - 1 : m \in 1 .. Len(above)
          BY <1>1, <3>1
        <5>. QED BY <2>1, <4>1, <4>2, <5>1
      <4>5. stack'[n] \in 1 .. Len(parsed')
        BY <1>0, <1>1, <1>3, <4>1, <4>2, SMTT(30)
      <4>. QED BY <4>3, <4>4, <4>5
    <3>2. CASE n = Len(above) + 1
      <4>1. ASSUME NEW m \in 1 .. n - 1 PROVE stack'[m] < stack'[n]
        <5>1. m \in 1 .. Len(above)
          BY <1>1, <3>2
        <5>2. stack[m] \in 1 .. Len(parsed)
          BY <2>1, <5>1 DEF LInv, StackIsPath
        <5>. QED BY <1>0, <1>3, <2>1, <3>2, <5>1, <5>2
      <4>. QED BY <1>0, <1>1, <2>1, <3>2, <4>1
    <3>. QED BY <1>1, <2>1, <3>1, <3>2
  <2>3. ASSUME NEW j \in 1 .. Len(parsed'),
               \A l \in j + 1 .. Len(parsed') : parsed'[l].height > parsed'[j].height
        PROVE  \E n \in 1 .. Len(stack') : stack'[n] = j
    <3>1. CASE j = idx
      <4>1. Len(above) + 1 \in 1 .. Len(stack')
        BY <1>1, <2>1
      <4>. QED BY <2>1, <3>1, <4>1
    <3>2. CASE j \in 1 .. Len(parsed)
      <4>1. \A l \in j + 1 .. Len(parsed) : parsed[l].height > parsed[j].height
        <5>1. ASSUME NEW l \in j + 1 .. Len(parsed) PROVE parsed[l].height > parsed[j].height
          <6>1. l \in j + 1 .. Len(parsed') /\ l \in 1 .. Len(parsed)
            BY <1>0, <1>1, <1>3, <3>2
          <6>. QED BY <1>1, <2>3, <3>2, <6>1
        <5>. QED BY <5>1
      <4>2. PICK n \in 1 .. Len(stack) : stack[n] = j
        BY <3>2, <4>1 DEF LInv, StackIsPath
      <4>3. Height(idx) > parsed[j].height
        <5>1. idx \in j + 1 .. Len(parsed')
          BY <1>0, <1>1, <1>3, <3>2
        <5>. QED BY <1>1, <2>3, <3>2, <5>1
      <4>4. parsed[j].height \in Nat
        <5>1. parsed[j] \in Parsed
          BY <1>0, <3>2
        <5>. QED BY <5>1 DEF Parsed
      <4>5. ~(parsed[stack[n]].height >= Height(idx))
        BY <1>1, <4>2, <4>3, <4>4
      <4>6. n \in 1 .. Len(above)
        <5>1. n \notin Len(above) + 1 .. Len(stack)
          BY <1>1, <4>5
        <5>. QED BY <1>0, <1>1, <5>1
      <4>7. n \in 1 .. Len(stack')
        BY <1>1, <2>1, <4>6
      <4>. QED BY <2>1, <4>2, <4>6, <4>7
    <3>. QED BY <1>4, <3>1, <3>2
  <2>. QED BY <2>2, <2>3 DEF StackIsPath
<1>9. FramesAreOpenCalls'
  <2>1. phase = "parsing" /\ cursor = 0 /\ Len(parsed') \in Nat
    BY <1>1 DEF ParseInstruction, LInv, FramesAreOpenCalls
  <2>. QED BY <1>5, <2>1 DEF LInv, FramesAreOpenCalls, runtime, Open
<1>10. ParentIsCaller'
  <2>0. SUFFICES ASSUME run.heights
                 PROVE  \A i \in 1 .. Len(parsed') : parsed'[i].parent = list[i].caller
    BY <1>1, <1>5 DEF ParentIsCaller, runtime
  <2>1. \A i \in 1 .. Len(parsed) : parsed[i].parent = list[i].caller
    BY <1>0, <2>0 DEF LInv, ParentIsCaller
  <2>2. \A i \in 1 .. Len(parsed) : parsed[i].height = list[i].height /\ list[i].height \in Nat \ {0}
    <3>1. ASSUME NEW i \in 1 .. Len(parsed)
          PROVE  parsed[i].height = list[i].height /\ list[i].height \in Nat \ {0}
      <4>1. parsed[i].height = Height(i)
        BY DEF LInv, ParsedFaithfully
      <4>2. Height(i) = list[i].height
        BY <2>0 DEF Height
      <4>3. parsed[i] \in Parsed
        BY <1>0
      <4>. QED BY <4>1, <4>2, <4>3 DEF Parsed
    <3>. QED BY <3>1
  <2>3. Height(idx) = list[idx].height
    BY <2>0 DEF Height
  <2> DEFINE c == list[idx].caller
  <2>4. /\ c = None <=> Height(idx) = 1
        /\ c # None =>
              /\ c \in 1 .. idx - 1
              /\ Height(idx) = list[c].height + 1
              /\ \A j \in c + 1 .. idx - 1 : list[j].height >= Height(idx)
    BY <1>1, <2>3 DEF LInv, RuntimeInv, CallersAreBelow
  <2>5. idx - 1 = Len(parsed)
    BY <1>0, <1>3
  <2>6. CASE c = None
    <3>1. Height(idx) = 1
      BY <2>4, <2>6
    <3>2. ASSUME above # <<>> PROVE FALSE
      <4>1. 1 \in 1 .. Len(above) /\ 1 \in 1 .. Len(stack)
        BY <1>0, <1>1, <3>2
      <4>2. parsed[stack[1]].height < 1
        BY <1>1, <3>1, <4>1
      <4>3. stack[1] \in 1 .. Len(parsed)
        BY <4>1 DEF LInv, StackIsPath
      <4>. QED BY <2>2, <4>2, <4>3
    <3>3. parsed'[idx].parent = c
      BY <1>1, <2>6, <3>2
    <3>. QED BY <1>1, <1>4, <2>1, <3>3
  <2>7. CASE c # None
    <3>1. /\ c \in 1 .. Len(parsed)
          /\ Height(idx) = parsed[c].height + 1
          /\ \A j \in c + 1 .. Len(parsed) : parsed[j].height >= Height(idx)
      <4>1. c \in 1 .. Len(parsed)
        BY <2>4, <2>5, <2>7
      <4>2. \A j \in c + 1 .. Len(parsed) : j \in 1 .. Len(parsed)
        BY <1>0, <4>1
      <4>. QED BY <2>2, <2>4, <2>5, <2>7, <4>1, <4>2
    <3>2. \A j \in c + 1 .. Len(parsed) : parsed[j].height > parsed[c].height
      <4>1. \A j \in c + 1 .. Len(parsed) : j \in 1 .. Len(parsed) /\ parsed[j].height \in Nat
        <5>1. \A j \in c + 1 .. Len(parsed) : j \in 1 .. Len(parsed)
          BY <1>0, <3>1
        <5>2. \A j \in 1 .. Len(parsed) : parsed[j].height \in Nat
          BY <2>2
        <5>. QED BY <5>1, <5>2
      <4>2. parsed[c].height \in Nat
        BY <2>2, <3>1
      <4>. QED BY <3>1, <4>1, <4>2
    <3>3. PICK n \in 1 .. Len(stack) : stack[n] = c
      BY <3>1, <3>2 DEF LInv, StackIsPath
    <3>4. n \in 1 .. Len(above)
      <4>1. parsed[c].height \in Nat
        BY <2>2, <3>1
      <4>2. ~(parsed[stack[n]].height >= Height(idx))
        BY <3>1, <3>3, <4>1
      <4>3. n \notin Len(above) + 1 .. Len(stack)
        BY <1>1, <4>2
      <4>. QED BY <1>0, <1>1, <4>3
    <3>5. ASSUME n # Len(above) PROVE FALSE
      <4> DEFINE top == Len(above)
      <4>1. top \in 1 .. Len(above) /\ top \in 1 .. Len(stack) /\ n \in 1 .. top - 1
        BY <1>0, <1>1, <3>4, <3>5, SMTT(30)
      <4>2. stack[n] < stack[top] /\ stack[top] \in 1 .. Len(parsed)
        BY <4>1 DEF LInv, StackIsPath
      <4>3. stack[top] \in c + 1 .. Len(parsed)
        BY <1>0, <3>1, <3>3, <4>2
      <4>4. parsed[stack[top]].height >= Height(idx)
        BY <3>1, <4>3
      <4>5. parsed[stack[top]].height < Height(idx)
        BY <1>1, <4>1
      <4>6. parsed[stack[top]].height \in Nat /\ Height(idx) \in Nat
        BY <1>1, <2>2, <4>2
      <4>. QED BY <4>4, <4>5, <4>6
    <3>6. above # <<>> /\ above[Len(above)] = c
      BY <1>1, <3>3, <3>4, <3>5
    <3>7. parsed'[idx].parent = c
      BY <1>1, <3>6
    <3>. QED BY <1>1, <1>4, <2>1, <3>7
  <2>. QED BY <2>6, <2>7
<1>11. LogsAreOwn'
  <2>1. \A i \in 1 .. Len(parsed) : \A k \in DOMAIN parsed[i].logs :
           parsed[i].logs[k] # Marker => stream[parsed[i].logs[k]].by = i
    BY <1>0 DEF LInv, LogsAreOwn, Slice
  <2>2. DOMAIN parsed' = 1 .. Len(parsed')
    BY <1>1
  <2>3. \A k : k \notin DOMAIN <<>>
    OBVIOUS
  <2>4. ASSUME NEW i \in 1 .. Len(parsed'), NEW k \in DOMAIN parsed'[i].logs,
               parsed'[i].logs[k] # Marker
        PROVE  stream[parsed'[i].logs[k]].by = i
    BY <1>1, <1>4, <2>1, <2>3, <2>4
  <2>. QED BY <1>5, <2>2, <2>4 DEF LogsAreOwn, Slice, runtime
<1>. QED BY <1>6, <1>7, <1>8, <1>9, <1>10, <1>11

-----------------------------------------------------------------------------
(* attach_logs.                                                            *)

(* An entry goes to the end of some slices and changes nothing else.       *)
LEMMA AttachedFacts ==
  ASSUME parsed \in Seq(Parsed), NEW to, NEW entry \in Nat
  PROVE  /\ Attached(to, entry) \in Seq(Parsed)
         /\ Len(Attached(to, entry)) = Len(parsed)
         /\ \A i \in 1 .. Len(parsed) :
               /\ Attached(to, entry)[i].program = parsed[i].program
               /\ Attached(to, entry)[i].height = parsed[i].height
               /\ Attached(to, entry)[i].parent = parsed[i].parent
               /\ Attached(to, entry)[i].logs = IF i \in to THEN Append(parsed[i].logs, entry)
                                                ELSE parsed[i].logs
<1>1. DOMAIN parsed = 1 .. Len(parsed) /\ Len(parsed) \in Nat
  OBVIOUS
<1>2. ASSUME NEW i \in 1 .. Len(parsed)
      PROVE  /\ Attached(to, entry)[i] \in Parsed
             /\ Attached(to, entry)[i].program = parsed[i].program
             /\ Attached(to, entry)[i].height = parsed[i].height
             /\ Attached(to, entry)[i].parent = parsed[i].parent
             /\ Attached(to, entry)[i].logs = IF i \in to THEN Append(parsed[i].logs, entry)
                                              ELSE parsed[i].logs
  <2>1. parsed[i] \in Parsed
    OBVIOUS
  <2>2. parsed[i].logs \in Seq(Nat)
    BY <2>1 DEF Parsed
  <2>3. Append(parsed[i].logs, entry) \in Seq(Nat)
    BY <2>2
  <2>4. Attached(to, entry)[i] = IF i \in to THEN [parsed[i] EXCEPT !.logs = Append(@, entry)] ELSE parsed[i]
    BY <1>1 DEF Attached
  <2>5. CASE i \in to
    <3>1. Attached(to, entry)[i] = [parsed[i] EXCEPT !.logs = Append(parsed[i].logs, entry)]
      BY <2>4, <2>5
    <3>. QED BY <2>1, <2>3, <2>5, <3>1 DEF Parsed
  <2>6. CASE i \notin to
    BY <2>1, <2>4, <2>6
  <2>. QED BY <2>5, <2>6
<1>3. Attached(to, entry) \in Seq(Parsed) /\ Len(Attached(to, entry)) = Len(parsed)
  <2>1. Attached(to, entry) \in [1 .. Len(parsed) -> Parsed]
    BY <1>1, <1>2 DEF Attached
  <2>. QED BY <1>1, <2>1
<1>. QED BY <1>2, <1>3

(* What attaching leaves alone of the parse, whatever it attaches.         *)
LEMMA ParseUntouched ==
  ASSUME LInv, UNCHANGED <<runtime, stack>>, phase \in {"attaching", "attached"},
         phase' \in {"attaching", "attached"},
         parsed' \in Seq(Parsed), Len(parsed') = Len(parsed),
         \A i \in 1 .. Len(parsed) :
            /\ parsed'[i].program = parsed[i].program
            /\ parsed'[i].height = parsed[i].height
            /\ parsed'[i].parent = parsed[i].parent
  PROVE  ParsedFaithfully' /\ StackIsPath' /\ ParentIsCaller'
<1>0. parsed \in Seq(Parsed) /\ stack \in Seq(Nat) /\ Len(parsed) \in Nat
  BY DEF LInv, Types
<1>1. ParsedFaithfully'
  BY DEF LInv, ParsedFaithfully, Height, runtime
<1>2. StackIsPath'
  <2>1. \A n \in 1 .. Len(stack) : stack[n] \in 1 .. Len(parsed)
    BY DEF LInv, StackIsPath
  <2>2. \A j \in 1 .. Len(parsed) : \A l \in j + 1 .. Len(parsed) : l \in 1 .. Len(parsed)
    BY <1>0
  <2>3. \A n \in 1 .. Len(stack) : \A l \in stack[n] + 1 .. Len(parsed) : l \in 1 .. Len(parsed)
    BY <2>1, <2>2
  <2>. QED BY <2>1, <2>2, <2>3 DEF LInv, StackIsPath
<1>3. ParentIsCaller'
  <2>1. DOMAIN parsed' = 1 .. Len(parsed) /\ DOMAIN parsed = 1 .. Len(parsed)
    BY <1>0
  <2>. QED BY <2>1 DEF LInv, ParentIsCaller, runtime
<1>. QED BY <1>1, <1>2, <1>3

(* A line that is handed to the call that wrote it, if to any.             *)
LEMMA AttachKeepsOwn ==
  ASSUME parsed \in Seq(Parsed), LogsAreOwn, UNCHANGED stream,
         NEW to, NEW entry \in Nat, parsed' = Attached(to, entry),
         \A i \in to : entry = Marker \/ stream[entry].by = i
  PROVE  LogsAreOwn'
<1>1. /\ parsed' \in Seq(Parsed) /\ Len(parsed') = Len(parsed)
      /\ \A i \in 1 .. Len(parsed) :
            parsed'[i].logs = IF i \in to THEN Append(parsed[i].logs, entry) ELSE parsed[i].logs
  BY AttachedFacts
<1>2. DOMAIN parsed' = 1 .. Len(parsed) /\ DOMAIN parsed = 1 .. Len(parsed)
  BY <1>1
<1>3. ASSUME NEW i \in 1 .. Len(parsed), NEW k \in DOMAIN parsed'[i].logs,
             parsed'[i].logs[k] # Marker
      PROVE  stream[parsed'[i].logs[k]].by = i
  <2>0. parsed[i].logs \in Seq(Nat)
    <3>1. parsed[i] \in Parsed
      OBVIOUS
    <3>. QED BY <3>1 DEF Parsed
  <2>1. CASE i \notin to
    BY <1>1, <1>2, <1>3, <2>1 DEF LogsAreOwn, Slice
  <2>2. CASE i \in to
    <3> DEFINE old == parsed[i].logs
    <3>1. parsed'[i].logs = Append(old, entry)
      BY <1>1, <2>2
    <3>2. \/ k \in DOMAIN old /\ parsed'[i].logs[k] = old[k]
          \/ parsed'[i].logs[k] = entry
      BY <1>3, <2>0, <3>1
    <3>. QED BY <1>2, <1>3, <2>2, <3>2 DEF LogsAreOwn, Slice
  <2>. QED BY <2>1, <2>2
<1>. QED BY <1>2, <1>3 DEF LogsAreOwn, Slice

(* The invoke that is read belongs to the instruction after the cursor, if *)
(* it names its program: those it may have skipped are silent, and a line  *)
(* of a silent program there is none.                                      *)
LEMMA InvokeIsNext ==
  ASSUME LInv, phase = "attaching", at < Len(stream),
         stream[at + 1].kind = "invoke", cursor < Len(parsed),
         parsed[cursor + 1].program = stream[at + 1].program
  PROVE  stream[at + 1].by = cursor + 1
<1>0. at \in Nat /\ cursor \in Nat /\ Len(stream) \in Nat /\ Len(parsed) \in Nat /\ Len(list) \in Nat
  BY DEF LInv, Types
<1> DEFINE b == stream[at + 1].by
<1>1. PICK n \in 1 .. Len(stream) : n = at + 1
  BY <1>0
<1>2. OrderedAt(n) /\ n - 1 = at
  BY <1>0, <1>1 DEF LInv, RuntimeInv, InvokesAreOrdered
<1>3. /\ b \in 1 .. Len(list)
      /\ stream[at + 1].program = list[b].program
      /\ ~IsSilent(b)
      /\ \A j \in 1 .. at : stream[j].kind = "invoke" => stream[j].by < b
      /\ \A i \in 1 .. b - 1 : IsSilent(i) \/ Invoked(i, at)
  <2>1. stream[n].kind = "invoke" /\ b = stream[n].by
    BY <1>1
  <2>2. /\ stream[n].by \in 1 .. Len(list)
        /\ stream[n].program = list[stream[n].by].program
        /\ ~IsSilent(stream[n].by)
        /\ \A j \in 1 .. n - 1 : stream[j].kind = "invoke" => stream[j].by < stream[n].by
        /\ \A i \in 1 .. stream[n].by - 1 : IsSilent(i) \/ Invoked(i, n - 1)
    BY <1>2, <2>1 DEF OrderedAt
  <2> HIDE DEF b
  <2>3. stream[at + 1].program = stream[n].program
    BY <1>1
  <2>. QED BY <1>2, <2>1, <2>2, <2>3
<1>4. /\ \A j \in 1 .. at : stream[j].kind = "invoke" => stream[j].by <= cursor
      /\ cursor = 0 \/ \E j \in 1 .. at : stream[j].kind = "invoke" /\ stream[j].by = cursor
  BY DEF LInv, FramesAreOpenCalls
<1>5. cursor < b
  BY <1>0, <1>3, <1>4
<1>6. ~IsSilent(cursor + 1)
  <2>1. cursor + 1 \in 1 .. Len(parsed)
    BY <1>0
  <2>2. list[cursor + 1].program = list[b].program
    BY <1>3, <2>1 DEF LInv, ParsedFaithfully
  <2>. QED BY <1>3, <2>2 DEF IsSilent
<1>7. ~Invoked(cursor + 1, at)
  <2>1. ASSUME NEW j \in 1 .. at, stream[j].kind = "invoke", stream[j].by = cursor + 1
        PROVE  FALSE
    <3>1. cursor + 1 <= cursor
      BY <1>4, <2>1
    <3>. QED BY <1>0, <3>1
  <2>. QED BY <2>1 DEF Invoked
<1>8. cursor + 1 \notin 1 .. b - 1
  BY <1>3, <1>6, <1>7
<1>. QED BY <1>0, <1>3, <1>5, <1>8

(* A line is read: it is of the innermost frame, or of the one it opens.   *)
LEMMA AttachKeeps ==
  ASSUME LInv, AttachLine
  PROVE  Types' /\ ParsedFaithfully' /\ StackIsPath' /\ FramesAreOpenCalls'
         /\ ParentIsCaller' /\ LogsAreOwn'
<1> DEFINE line == stream[at + 1]
<1>0. /\ at \in Nat /\ cursor \in 0 .. Len(parsed) /\ Len(stream) \in Nat /\ Len(parsed) \in Nat
      /\ stream \in Seq(Entry) /\ parsed \in Seq(Parsed) /\ frames \in Seq(Nat)
      /\ Types /\ LogsAreOwn
  BY DEF LInv, Types, FramesAreOpenCalls
<1>1. /\ UNCHANGED <<runtime, stack>> /\ at' = at + 1 /\ at < Len(stream)
      /\ phase = "attaching" /\ at + 1 \in 1 .. Len(stream) /\ at + 1 \in Nat
      /\ at + 1 - 1 = at
  BY <1>0 DEF AttachLine
<1>2. /\ frames = Open(at)
      /\ \A j \in 1 .. at : stream[j].kind = "invoke" => stream[j].by <= cursor
      /\ cursor = 0 \/ \E j \in 1 .. at : stream[j].kind = "invoke" /\ stream[j].by = cursor
  BY <1>1 DEF LInv, FramesAreOpenCalls
<1>3. /\ line.kind = "invoke" => line.open = Append(frames, line.by)
      /\ line.kind \in {"success", "failed", "note"} => frames # <<>> /\ line.by = Last(frames)
      /\ line.kind \in {"success", "failed"} => line.open = Front(frames)
      /\ line.kind = "note" => line.open = frames
  <2>1. PICK n \in 1 .. Len(stream) : n = at + 1
    BY <1>1
  <2>2. n - 1 = at /\ line = stream[n]
    BY <1>0, <2>1
  <2>3. Open(n - 1) = frames
    BY <1>2, <2>2
  <2>4. OpensAt(n)
    BY DEF LInv, RuntimeInv, OpensFollow
  <2> HIDE DEF line
  <2>. QED BY <2>2, <2>3, <2>4 DEF OpensAt
<1>4. line \in Entry
  BY <1>0, <1>1
<1>5. line.kind \in Kinds /\ line.by \in Nat
  BY <1>4 DEF Entry
<1>6. ASSUME NEW to, NEW entry \in Nat, parsed' = Attached(to, entry),
             \A i \in to : entry = Marker \/ stream[entry].by = i,
             phase' \in {"attaching", "attached"}
      PROVE  /\ parsed' \in Seq(Parsed) /\ Len(parsed') = Len(parsed)
             /\ ParsedFaithfully' /\ StackIsPath' /\ ParentIsCaller' /\ LogsAreOwn'
  <2>1. /\ parsed' \in Seq(Parsed)
        /\ Len(parsed') = Len(parsed)
        /\ \A i \in 1 .. Len(parsed) :
              /\ parsed'[i].program = parsed[i].program
              /\ parsed'[i].height = parsed[i].height
              /\ parsed'[i].parent = parsed[i].parent
    BY <1>0, <1>6, AttachedFacts
  <2>2. ParsedFaithfully' /\ StackIsPath' /\ ParentIsCaller'
    BY <1>1, <1>6, <2>1, ParseUntouched
  <2>3. UNCHANGED stream
    BY <1>1 DEF runtime
  <2>4. LogsAreOwn'
    BY <1>0, <1>6, <2>3, AttachKeepsOwn
  <2>. QED BY <2>1, <2>2, <2>4
<1>7. ASSUME UNCHANGED parsed, phase' \in {"attaching", "attached"}
      PROVE  /\ parsed' \in Seq(Parsed) /\ Len(parsed') = Len(parsed)
             /\ ParsedFaithfully' /\ StackIsPath' /\ ParentIsCaller' /\ LogsAreOwn'
  <2>1. ParsedFaithfully' /\ StackIsPath' /\ ParentIsCaller'
    BY <1>0, <1>1, <1>7, ParseUntouched
  <2>2. LogsAreOwn'
    BY <1>0, <1>1, <1>7 DEF LogsAreOwn, Slice, runtime
  <2>. QED BY <1>0, <1>7, <2>1, <2>2
(* The walk ends here.                                                     *)
<1>8. ASSUME NEW counter \in Outcomes, Exit(counter), UNCHANGED <<frames, cursor>>,
             parsed' \in Seq(Parsed), Len(parsed') = Len(parsed)
      PROVE  Types' /\ FramesAreOpenCalls'
  <2>1. phase' = "attached" /\ outcome' \in Outcomes
    BY <1>8 DEF Exit
  <2>2. Types'
    BY <1>0, <1>1, <1>8, <2>1 DEF Types, runtime
  <2>3. at' \in 0 .. Len(stream') /\ cursor' \in 0 .. Len(parsed')
    BY <1>0, <1>1, <1>8 DEF runtime
  <2>. QED BY <2>1, <2>2, <2>3 DEF FramesAreOpenCalls
(* It goes on, with the frames this line leaves open.                      *)
<1>9. ASSUME UNCHANGED <<phase, outcome>>, parsed' \in Seq(Parsed), Len(parsed') = Len(parsed),
             frames' \in Seq(Nat), frames' = line.open, cursor' \in 0 .. Len(parsed),
             cursor <= cursor',
             IF line.kind = "invoke" THEN line.by = cursor' ELSE cursor' = cursor
      PROVE  Types' /\ FramesAreOpenCalls'
  <2>1. Types'
    BY <1>0, <1>1, <1>9 DEF Types, runtime
  <2>2. at' \in 0 .. Len(stream') /\ cursor' \in 0 .. Len(parsed') /\ stream' = stream
    BY <1>0, <1>1, <1>9 DEF runtime
  <2>3. frames' = Open(at)'
    BY <1>0, <1>1, <1>9, <2>2 DEF Open
  <2>4. ASSUME NEW j \in 1 .. at', stream'[j].kind = "invoke" PROVE stream'[j].by <= cursor'
    <3>1. CASE j = at + 1
      BY <1>9, <2>2, <2>4, <3>1
    <3>2. CASE j # at + 1
      <4>1. j \in 1 .. at
        BY <1>0, <1>1, <3>2
      <4>2. stream[j].by <= cursor /\ stream[j].by \in Nat
        <5>1. stream[j] \in Entry
          BY <1>0, <1>1, <4>1
        <5>. QED BY <1>2, <2>2, <2>4, <4>1, <5>1 DEF Entry
      <4>. QED BY <1>0, <1>9, <2>2, <4>2
    <3>. QED BY <3>1, <3>2
  <2>5. cursor' = 0 \/ \E j \in 1 .. at' : stream'[j].kind = "invoke" /\ stream'[j].by = cursor'
    <3>1. CASE line.kind = "invoke"
      BY <1>0, <1>1, <1>9, <2>2, <3>1
    <3>2. CASE line.kind # "invoke"
      BY <1>0, <1>1, <1>2, <1>9, <2>2, <3>2
    <3>. QED BY <3>1, <3>2
  <2>. QED BY <1>1, <1>9, <2>1, <2>2, <2>3, <2>4, <2>5 DEF FramesAreOpenCalls
<1>16. ASSUME NEW x, x = line.by, parsed' = Attached({x}, at + 1),
              phase' \in {"attaching", "attached"}
       PROVE  /\ parsed' \in Seq(Parsed) /\ Len(parsed') = Len(parsed)
              /\ ParsedFaithfully' /\ StackIsPath' /\ ParentIsCaller' /\ LogsAreOwn'
  <2>1. PICK n \in Nat : n = at + 1
    BY <1>1
  <2>2. parsed' = Attached({x}, n) /\ \A i \in {x} : n = Marker \/ stream[n].by = i
    BY <1>16, <2>1
  <2> HIDE DEF line
  <2>3. phase' \in {"attaching", "attached"}
    BY <1>16
  <2>4. PICK to : to = {x}
    OBVIOUS
  <2>5. parsed' = Attached(to, n) /\ \A i \in to : n = Marker \/ stream[n].by = i
    BY <2>2, <2>4
  <2>. QED BY <1>6, <2>3, <2>5
<1> HIDE DEF line
<1>10. CASE AttachCut
  <2>1. Marker \in Nat /\ "truncated" \in Outcomes
    BY DEF Marker, Outcomes
  <2>2. PICK to : parsed' = Attached(to, Marker)
    BY <1>10 DEF AttachCut
  <2>3. Exit("truncated") /\ UNCHANGED <<frames, cursor>> /\ phase' = "attached"
    BY <1>10 DEF AttachCut, Exit
  <2>. QED BY <1>6, <1>8, <2>1, <2>2, <2>3
<1>11. CASE line.kind = "invoke" /\ AttachOpen(line)
  <2>1. CASE UNCHANGED <<parsed, frames, cursor>> /\ (Exit("overrun") \/ Exit("desynced"))
    <3>1. {"overrun", "desynced"} \subseteq Outcomes /\ phase' = "attached"
      BY <2>1 DEF Outcomes, Exit
    <3>. QED BY <1>7, <1>8, <2>1, <3>1
  <2>2. CASE /\ cursor < Len(parsed) /\ parsed[cursor + 1].program = line.program
             /\ parsed' = Attached({cursor + 1}, at + 1)
             /\ frames' = Append(frames, cursor + 1)
             /\ cursor' = cursor + 1
             /\ UNCHANGED <<phase, outcome>>
    <3>1. line.by = cursor + 1
      BY <1>1, <1>11, <2>2, InvokeIsNext DEF line
    <3>2. frames' = line.open /\ frames' \in Seq(Nat)
      BY <1>0, <1>3, <1>11, <2>2, <3>1
    <3>3. /\ parsed' \in Seq(Parsed) /\ Len(parsed') = Len(parsed)
          /\ ParsedFaithfully' /\ StackIsPath' /\ ParentIsCaller' /\ LogsAreOwn'
      BY <1>1, <1>16, <2>2, <3>1
    <3>4. Types' /\ FramesAreOpenCalls'
      BY <1>0, <1>9, <1>11, <2>2, <3>1, <3>2, <3>3
    <3>. QED BY <3>3, <3>4
  <2>. QED BY <1>0, <1>11, <2>1, <2>2 DEF AttachOpen
<1>12. CASE line.kind \in {"success", "failed"} /\ AttachClose
  <2>1. frames # <<>> /\ line.by = Last(frames) /\ line.open = Front(frames)
    BY <1>3, <1>12
  <2>2. /\ parsed' = Attached({Last(frames)}, at + 1) /\ frames' = Front(frames)
        /\ UNCHANGED <<cursor, phase, outcome>>
    BY <1>12, <2>1 DEF AttachClose
  <2>3. frames' = line.open /\ frames' \in Seq(Nat)
    BY <1>0, <2>1, <2>2, FrontFacts
  <2>4. /\ parsed' \in Seq(Parsed) /\ Len(parsed') = Len(parsed)
        /\ ParsedFaithfully' /\ StackIsPath' /\ ParentIsCaller' /\ LogsAreOwn'
    BY <1>1, <1>16, <2>1, <2>2
  <2>5. Types' /\ FramesAreOpenCalls'
    BY <1>0, <1>9, <1>12, <2>2, <2>3, <2>4
  <2>. QED BY <2>4, <2>5
<1>13. CASE line.kind = "note" /\ AttachBody
  <2>1. frames # <<>> /\ line.by = Last(frames) /\ line.open = frames
    BY <1>3, <1>13
  <2>2. /\ parsed' = Attached({Last(frames)}, at + 1)
        /\ UNCHANGED <<frames, cursor, phase, outcome>>
    BY <1>13, <2>1 DEF AttachBody
  <2>3. /\ parsed' \in Seq(Parsed) /\ Len(parsed') = Len(parsed)
        /\ ParsedFaithfully' /\ StackIsPath' /\ ParentIsCaller' /\ LogsAreOwn'
    BY <1>1, <1>16, <2>1, <2>2
  <2>4. Types' /\ FramesAreOpenCalls'
    BY <1>0, <1>9, <1>13, <2>1, <2>2, <2>3
  <2>. QED BY <2>3, <2>4
<1>14. \/ Effect(line) = "cut" /\ AttachCut
       \/ Effect(line) = "open" /\ AttachOpen(line)
       \/ Effect(line) = "close" /\ AttachClose
       \/ Effect(line) = "body" /\ AttachBody
  BY DEF AttachLine, line
<1>15. /\ Effect(line) = "open" => line.kind = "invoke"
       /\ Effect(line) = "close" => line.kind \in {"success", "failed"}
       /\ Effect(line) = "body" => line.kind = "note"
  BY <1>5 DEF Effect, Kinds
<1>. QED BY <1>10, <1>11, <1>12, <1>13, <1>14, <1>15

(* The two ends of the walk over the lines.                                *)
LEMMA EndsKeep ==
  ASSUME LInv, StartAttaching \/ AttachEnd
  PROVE  Types' /\ ParsedFaithfully' /\ StackIsPath' /\ FramesAreOpenCalls'
         /\ ParentIsCaller' /\ LogsAreOwn'
<1>1. /\ UNCHANGED <<runtime, parsed, stack, frames, cursor, at>>
      /\ outcome' \in {outcome, "complete"} /\ phase' \in {"attaching", "attached"}
  BY DEF StartAttaching, AttachEnd, Exit, parser
<1>2. Types'
  BY <1>1 DEF LInv, Types, runtime, Outcomes
<1>3. StackIsPath' /\ ParentIsCaller' /\ LogsAreOwn'
  BY <1>1 DEF LInv, StackIsPath, ParentIsCaller, LogsAreOwn, Slice, runtime
<1>4. Len(parsed) = Len(list)
  BY DEF StartAttaching, AttachEnd, LInv, ParsedFaithfully
<1>5. ParsedFaithfully'
  BY <1>1, <1>4 DEF LInv, ParsedFaithfully, Height, runtime
<1>6. at \in 0 .. Len(stream) /\ cursor \in 0 .. Len(parsed)
  BY DEF LInv, FramesAreOpenCalls
<1>7. CASE StartAttaching
  <2>1. frames = <<>> /\ cursor = 0 /\ at = 0
    BY <1>7 DEF LInv, FramesAreOpenCalls, StartAttaching
  <2>2. Open(at)' = <<>> /\ \A j \in 1 .. at : FALSE
    BY <1>1, <2>1 DEF Open
  <2>. QED BY <1>1, <1>2, <1>3, <1>5, <1>6, <2>1, <2>2 DEF FramesAreOpenCalls, runtime
<1>8. CASE AttachEnd
  <2>1. phase' = "attached"
    BY <1>8 DEF AttachEnd, Exit
  <2>. QED BY <1>1, <1>2, <1>3, <1>5, <1>6, <2>1 DEF FramesAreOpenCalls, runtime
<1>. QED BY <1>7, <1>8

(* While the transaction runs there is nothing parsed to disturb.          *)
LEMMA RunKeeps ==
  ASSUME LInv, Runtime
  PROVE  Types' /\ ParsedFaithfully' /\ StackIsPath' /\ FramesAreOpenCalls'
         /\ ParentIsCaller' /\ LogsAreOwn'
<1>1. phase = "running" /\ phase' \in {"running", "parsing"} /\ UNCHANGED parser
  BY RuntimeRuns
<1>2. Types'
  BY RuntimeTypes DEF LInv, RuntimeInv
<1>3. /\ parsed = <<>> /\ stack = <<>> /\ frames = <<>> /\ cursor = 0 /\ at = 0
      /\ parsed' = <<>> /\ stack' = <<>> /\ frames' = <<>> /\ cursor' = 0 /\ at' = 0
  BY <1>1 DEF LInv, ParsedFaithfully, FramesAreOpenCalls, parser
<1>4. Len(list') \in Nat /\ Len(stream') \in Nat
  BY <1>2 DEF Types
<1>5. ParsedFaithfully' /\ StackIsPath'
  BY <1>1, <1>3, <1>4 DEF ParsedFaithfully, StackIsPath
<1>6. FramesAreOpenCalls'
  BY <1>1, <1>3, <1>4 DEF FramesAreOpenCalls
<1>7. ParentIsCaller' /\ LogsAreOwn'
  <2>1. \A i : i \notin DOMAIN parsed'
    BY <1>3
  <2>. QED BY <2>1 DEF ParentIsCaller, LogsAreOwn
<1>. QED BY <1>2, <1>5, <1>6, <1>7

(* The invariant, from the initial states on.                              *)
LEMMA LInvHolds == LSpec => []LInv
<1>1. LInit => LInv
  <2> SUFFICES ASSUME LInit PROVE LInv
    OBVIOUS
  <2>1. Types
    <3>1. run \in [cast : Casts, ok : BOOLEAN, logging : {"on", "cut", "suppressed"},
                   heights : BOOLEAN]
      BY DEF LInit
    <3>. QED BY <3>1 DEF LInit, Types, Outcomes
  <2>2. RuntimeInv
    BY DEF LInit, RuntimeInv, CallsAreNested, CallersAreBelow, InvokesAreOrdered, OpensFollow,
           Open, LoudCalls
  <2>3. ParsedFaithfully /\ StackIsPath /\ FramesAreOpenCalls
    BY DEF LInit, ParsedFaithfully, StackIsPath, FramesAreOpenCalls
  <2>4. ParentIsCaller /\ LogsAreOwn
    <3>1. \A i : i \notin DOMAIN parsed
      BY DEF LInit
    <3>. QED BY <3>1 DEF ParentIsCaller, LogsAreOwn
  <2>. QED BY <2>1, <2>2, <2>3, <2>4 DEF LInv
<1>2. LInv /\ [LNext]_lvars => LInv'
  <2> SUFFICES ASSUME LInv, [LNext]_lvars PROVE LInv'
    OBVIOUS
  <2>1. RuntimeInv'
    <3>1. Types /\ RuntimeInv
      BY DEF LInv
    <3>. QED BY <3>1, RuntimeInvInductive DEF LNext
  <2>2. CASE LNext
    <3>. QED BY <2>1, <2>2, RunKeeps, ParseKeeps, AttachKeeps, EndsKeep DEF LNext, Parser, LInv
  <2>3. CASE UNCHANGED lvars
    <3>1. /\ UNCHANGED <<list, calls, stream, run, phase, parsed, stack, frames, cursor, at, outcome>>
          /\ LInv
      BY <2>3 DEF lvars, runtime, parser
    <3>2. Types'
      BY <3>1 DEF LInv, Types
    <3>3. ParsedFaithfully' /\ StackIsPath'
      BY <3>1 DEF LInv, ParsedFaithfully, Height, StackIsPath
    <3>4. FramesAreOpenCalls'
      BY <3>1 DEF LInv, FramesAreOpenCalls, Open
    <3>5. ParentIsCaller' /\ LogsAreOwn'
      BY <3>1 DEF LInv, ParentIsCaller, LogsAreOwn, Slice
    <3>. QED BY <2>1, <3>2, <3>3, <3>4, <3>5 DEF LInv
  <2>. QED BY <2>2, <2>3
<1>. QED BY <1>1, <1>2, PTL DEF LSpec

(* attach_logs (instruction.rs): however the transaction ran, failed or    *)
(* was cut, whatever it holds of the silent programs, and wherever the     *)
(* walk lost its place, a line that was handed to an instruction was       *)
(* written by that call.                                                   *)
THEOREM LogsAlwaysOwn == LSpec => []LogsAreOwn
<1>1. LInv => LogsAreOwn
  BY DEF LInv
<1>. QED BY <1>1, LInvHolds, PTL

(* parse_instructions (instruction.rs): where heights are reported, the    *)
(* parent that the stack yields is the instruction that made the call.     *)
THEOREM ParentAlwaysCaller == LSpec => []ParentIsCaller
<1>1. LInv => ParentIsCaller
  BY DEF LInv
<1>. QED BY <1>1, LInvHolds, PTL

-----------------------------------------------------------------------------
(* Type correctness.                                                       *)

(* What the bookkeeping needs beyond LInv.                                 *)
Bounded ==
  /\ Len(list) <= MaxInstructions
  /\ \A k \in 1 .. Len(stream) : stream[k].by \in 0 .. Len(list)
  /\ outcome # "none" <=> phase = "attached"
  /\ \A n \in 1 .. Len(frames) :
        frames[n] \in 1 .. cursor /\ \A m \in 1 .. n - 1 : frames[m] < frames[n]

(* Whoever wrote a line is an instruction of the list.                     *)
LEMMA WritersExist ==
  ASSUME Types, CallsAreNested, Runtime,
         \A k \in 1 .. Len(stream) : stream[k].by \in 0 .. Len(list)
  PROVE  \A k \in 1 .. Len(stream') : stream'[k].by \in 0 .. Len(list')
<1>0. /\ stream \in Seq(Entry) /\ list \in Seq(Instruction) /\ Len(stream) \in Nat
      /\ Len(list) \in Nat /\ Len(list') \in Nat /\ Len(list) <= Len(list')
      /\ stream' \in Seq(Entry) /\ Len(stream') \in Nat
  <2>1. list \in Seq(Instruction) /\ stream \in Seq(Entry) /\ stream' \in Seq(Entry)
    BY RuntimeTypes DEF Types
  <2>2. Len(list') \in {Len(list), Len(list) + 1}
    BY ListGrows
  <2>. QED BY <2>1, <2>2
<1>1. ASSUME stream' = stream
      PROVE  \A k \in 1 .. Len(stream') : stream'[k].by \in 0 .. Len(list')
  BY <1>0, <1>1
<1>2. ASSUME \A k \in 1 .. Len(stream) : stream'[k] = stream[k],
             \A k \in Len(stream) + 1 .. Len(stream') : stream'[k].by \in 0 .. Len(list')
      PROVE  \A k \in 1 .. Len(stream') : stream'[k].by \in 0 .. Len(list')
  <2>1. ASSUME NEW k \in 1 .. Len(stream') PROVE stream'[k].by \in 0 .. Len(list')
    <3>1. CASE k \in 1 .. Len(stream)
      BY <1>0, <1>2, <3>1
    <3>2. CASE k \in Len(stream) + 1 .. Len(stream')
      BY <1>2, <3>2
    <3>. QED BY <1>0, <3>1, <3>2
  <2>. QED BY <2>1
<1>3. ASSUME Len(stream') = Len(stream) + 1,
             \A k \in 1 .. Len(stream) : stream'[k] = stream[k],
             stream'[Len(stream) + 1].by \in 0 .. Len(list')
      PROVE  \A k \in 1 .. Len(stream') : stream'[k].by \in 0 .. Len(list')
  <2>1. \A k \in Len(stream) + 1 .. Len(stream') : k = Len(stream) + 1
    BY <1>0, <1>3
  <2>. QED BY <1>2, <1>3, <2>1
<1>4. ASSUME NEW p \in run.cast, NEW w \in Works[p], Invoke(p, w)
      PROVE  \A k \in 1 .. Len(stream') : stream'[k].by \in 0 .. Len(list')
  <2>1. Len(list) + 1 \in 0 .. Len(list')
    BY <1>0, <1>4, InvokeFacts
  <2>. QED BY <1>1, <1>3, <1>4, <2>1, InvokeWrites
<1>5. ASSUME NEW note \in UNION {Notes[p] : p \in run.cast}, Log(note)
      PROVE  \A k \in 1 .. Len(stream') : stream'[k].by \in 0 .. Len(list')
  <2>1. note \in Note
    BY ProgramAssumption DEF Types, Note
  <2>2. list' = list /\ calls # <<>> /\ calls \in Seq(Nat)
    BY <1>5 DEF Log, Types
  <2>3. Record(Unless(IsSilent(Last(calls)), Line("note", Last(calls), 0, note, calls)))
    BY <1>5 DEF Log, Unless
  <2>4. Last(calls) \in 0 .. Len(list')
    BY <1>0, <2>2, CallFacts
  <2>. QED BY <1>1, <1>3, <2>1, <2>2, <2>3, <2>4, CallWrites
<1>6. CASE Return
  <2>1. NoNote \in Note
    BY DEF Note
  <2>2. list' = list /\ calls # <<>> /\ calls' \in Seq(Nat)
    BY <1>6, RuntimeTypes DEF Return, Types
  <2>3. Record(Unless(IsSilent(Last(calls)), Line("success", Last(calls), 0, NoNote, calls')))
    BY <1>6 DEF Return
  <2>4. Last(calls) \in 0 .. Len(list')
    BY <1>0, <2>2, CallFacts
  <2>. QED BY <1>1, <1>3, <2>1, <2>2, <2>3, <2>4, CallWrites
<1>7. CASE Fail
  <2>1. CASE stream' = stream
    BY <1>1, <2>1
  <2>2. CASE stream' # stream
    <3>1. /\ Len(stream') = Len(stream) + Len(LoudCalls)
          /\ \A k \in 1 .. Len(stream) : stream'[k] = stream[k]
          /\ \A n \in 1 .. Len(LoudCalls) :
                stream'[Len(stream) + n].by = LoudCalls[Len(LoudCalls) - n + 1]
      BY <1>7, <2>2, FailWrites
    <3>2. Len(LoudCalls) \in Nat
      BY CallFacts
    <3>3. ASSUME NEW k \in Len(stream) + 1 .. Len(stream')
          PROVE  stream'[k].by \in 0 .. Len(list')
      <4>1. PICK n \in 1 .. Len(LoudCalls) : k = Len(stream) + n
        <5>1. k - Len(stream) \in 1 .. Len(LoudCalls) /\ k = Len(stream) + (k - Len(stream))
          BY <1>0, <3>1, <3>2
        <5>. QED BY <5>1
      <4>2. Len(LoudCalls) - n + 1 \in 1 .. Len(LoudCalls)
        BY <3>2
      <4>3. LoudCalls[Len(LoudCalls) - n + 1] \in 1 .. Len(list)
        BY <4>2, CallFacts
      <4>. QED BY <1>0, <3>1, <4>1, <4>3
    <3>. QED BY <1>2, <3>1, <3>3
  <2>. QED BY <2>1, <2>2
<1>8. CASE Cut
  <2> DEFINE line == Line("truncated", None, 0, NoNote, LoudCalls)
  <2>1. line \in Entry /\ line.by = None
    <3>1. LoudCalls \in Seq(Nat) /\ list' \in Seq(Instruction)
      BY <1>8, CallFacts DEF Cut, Types
    <3>2. "truncated" \in Kinds /\ NoNote \in Note /\ None \in Nat /\ 0 \in Nat
      BY DEF Kinds, Note, None
    <3>. QED BY <3>1, <3>2, LineType
  <2>2. stream' = Append(stream, line)
    BY <1>8 DEF Cut
  <2> HIDE DEF line
  <2>3. /\ Len(stream') = Len(stream) + 1 /\ stream'[Len(stream) + 1] = line
        /\ \A k \in 1 .. Len(stream) : stream'[k] = stream[k]
    BY <1>0, <2>1, <2>2
  <2>4. stream'[Len(stream) + 1].by \in 0 .. Len(list')
    BY <1>0, <2>1, <2>3 DEF None
  <2>. QED BY <1>3, <2>3, <2>4
<1>9. ASSUME NEW rest, Settle(rest)
      PROVE  \A k \in 1 .. Len(stream') : stream'[k].by \in 0 .. Len(list')
  BY <1>1, <1>9 DEF Settle
<1>. QED BY <1>4, <1>5, <1>6, <1>7, <1>8, <1>9 DEF Runtime

(* The frames are taken off and put on at their end, and only a walk that  *)
(* has ended has an outcome.                                               *)
LEMMA BoundedInductive ==
  ASSUME LInv, Bounded, [LNext]_lvars, LInv'
  PROVE  Bounded'
<1>0. /\ Types /\ CallsAreNested /\ Len(list) \in Nat /\ cursor \in Nat /\ frames \in Seq(Nat)
      /\ MaxInstructions \in Nat
  BY ProgramAssumption DEF LInv, RuntimeInv, Types
<1>1. ASSUME UNCHANGED <<list, stream, frames, cursor>>,
             outcome' # "none" <=> phase' = "attached"
      PROVE  Bounded'
  BY <1>1 DEF Bounded
<1>2. CASE Runtime
  <2>1. phase = "running" /\ phase' \in {"running", "parsing"} /\ UNCHANGED parser
    BY <1>2, RuntimeRuns
  <2>2. \A k \in 1 .. Len(stream') : stream'[k].by \in 0 .. Len(list')
    BY <1>0, <1>2, WritersExist DEF Bounded
  <2>3. Len(list') <= MaxInstructions
    <3>1. CASE list' = list
      BY <3>1 DEF Bounded
    <3>2. CASE list' # list
      <4>1. Len(list) < MaxInstructions
        <5>1. CASE \E p \in run.cast : \E w \in Works[p] : Invoke(p, w)
          BY <5>1 DEF Invoke
        <5>2. CASE ~ \E p \in run.cast : \E w \in Works[p] : Invoke(p, w)
          <6>1. PICK rest : Settle(rest) /\ list' = list \o rest
            BY <1>2, <3>2, <5>2 DEF Runtime, Log, Return, Fail, Cut, Settle
          <6>2. rest # <<>>
            BY <1>0, <3>2, <6>1 DEF Types
          <6>. QED BY <6>1, <6>2 DEF Settle
        <5>. QED BY <5>1, <5>2
      <4>2. Len(list') \in {Len(list), Len(list) + 1}
        BY <1>0, <1>2, ListGrows
      <4>. QED BY <1>0, <4>1, <4>2
    <3>. QED BY <3>1, <3>2
  <2>. QED BY <2>1, <2>2, <2>3 DEF Bounded, parser
<1>3. CASE ParseInstruction \/ StartAttaching \/ AttachEnd \/ UNCHANGED lvars
  BY <1>1, <1>3 DEF Bounded, ParseInstruction, StartAttaching, AttachEnd, Exit, lvars, runtime, parser
<1>4. CASE AttachLine
  <2>1. UNCHANGED <<list, stream>> /\ phase = "attaching"
    BY <1>4 DEF AttachLine, runtime
  <2>2. outcome' # "none" <=> phase' = "attached"
    BY <1>4, <2>1 DEF Bounded, AttachLine, AttachCut, AttachOpen, AttachClose, AttachBody, Exit
  <2>3. CASE UNCHANGED <<frames, cursor>>
    BY <1>1, <2>1, <2>2, <2>3
  <2>4. CASE frames' = Append(frames, cursor + 1) /\ cursor' = cursor + 1
    <3>1. /\ Len(frames') = Len(frames) + 1 /\ Len(frames) \in Nat
          /\ frames'[Len(frames) + 1] = cursor + 1
          /\ \A n \in 1 .. Len(frames) : frames'[n] = frames[n]
      BY <1>0, <2>4
    <3>2. ASSUME NEW n \in 1 .. Len(frames')
          PROVE  frames'[n] \in 1 .. cursor' /\ \A m \in 1 .. n - 1 : frames'[m] < frames'[n]
      <4>1. \A m \in 1 .. Len(frames) : frames[m] \in 1 .. cursor
        BY DEF Bounded
      <4>2. CASE n \in 1 .. Len(frames)
        <5>1. \A m \in 1 .. n - 1 : m \in 1 .. Len(frames) /\ frames[m] < frames[n]
          BY <3>1, <4>2 DEF Bounded
        <5>. QED BY <1>0, <2>4, <3>1, <4>1, <4>2, <5>1
      <4>3. CASE n = Len(frames) + 1
        <5>1. \A m \in 1 .. n - 1 : m \in 1 .. Len(frames)
          BY <3>1, <4>3
        <5>. QED BY <1>0, <2>4, <3>1, <4>1, <4>3, <5>1
      <4>. QED BY <3>1, <4>2, <4>3
    <3>. QED BY <2>1, <2>2, <3>2 DEF Bounded
  <2>5. CASE frames # <<>> /\ frames' = Front(frames) /\ cursor' = cursor
    <3>1. /\ Len(frames') = Len(frames) - 1 /\ Len(frames) \in Nat
          /\ \A n \in 1 .. Len(frames) - 1 : frames'[n] = frames[n]
      BY <1>0, <2>5, FrontFacts
    <3>2. ASSUME NEW n \in 1 .. Len(frames')
          PROVE  frames'[n] \in 1 .. cursor' /\ \A m \in 1 .. n - 1 : frames'[m] < frames'[n]
      <4>1. n \in 1 .. Len(frames) /\ n \in 1 .. Len(frames) - 1
        BY <3>1
      <4>2. \A m \in 1 .. n - 1 : m \in 1 .. Len(frames) - 1
        BY <3>1, <4>1
      <4>. QED BY <2>5, <3>1, <4>1, <4>2 DEF Bounded
    <3>. QED BY <2>1, <2>2, <3>2 DEF Bounded
  <2>. QED BY <1>4, <2>3, <2>4, <2>5 DEF AttachLine, AttachCut, AttachOpen, AttachClose, AttachBody
<1>. QED BY <1>2, <1>3, <1>4 DEF LNext, Parser

(* Two sequences of the bookkeeping that ascend because of what they hold. *)
LEMMA CallsAscend ==
  ASSUME Types, CallsAreNested
  PROVE  \A n \in 1 .. Len(calls) : \A m \in 1 .. n - 1 : calls[m] < calls[n]
<1>1. ASSUME NEW n \in 1 .. Len(calls), NEW m \in 1 .. n - 1, calls[n] <= calls[m]
      PROVE  FALSE
  <2>1. m \in 1 .. Len(calls) /\ m < n /\ m \in Nat /\ n \in Nat
    BY DEF Types
  <2>2. /\ calls[n] \in 1 .. Len(list) /\ list[calls[n]].height = n
        /\ calls[m] \in 1 .. Len(list) /\ list[calls[m]].height = m
        /\ \A j \in calls[n] + 1 .. Len(list) : list[j].height > n
    BY <2>1 DEF CallsAreNested
  <2>3. calls[m] # calls[n]
    BY <2>1, <2>2
  <2>4. calls[m] \in calls[n] + 1 .. Len(list)
    <3>1. Len(list) \in Nat
      BY DEF Types
    <3>. QED BY <1>1, <2>2, <2>3, <3>1
  <2>. QED BY <2>1, <2>2, <2>4
<1>2. \A n \in 1 .. Len(calls) : \A m \in 1 .. n - 1 : calls[m] \in Nat /\ calls[n] \in Nat
  BY DEF Types
<1>. QED BY <1>1, <1>2

(* parse_instructions and attach_logs index the instructions by what is on *)
(* their stacks, without a check: it names instructions that were met, in  *)
(* the order they were.                                                    *)
THEOREM TypeCorrect == LSpec => []TypeOK
<1>1. LInit => Bounded
  BY ProgramAssumption DEF LInit, Bounded
<1>2. LInv /\ LInv' /\ Bounded /\ [LNext]_lvars => Bounded'
  BY BoundedInductive
<1>3. LInv /\ Bounded => TypeOK
  <2> SUFFICES ASSUME LInv, Bounded PROVE TypeOK
    OBVIOUS
  <2>1. Types /\ CallsAreNested
    BY DEF LInv, RuntimeInv
  <2>2. /\ DOMAIN list = 1 .. Len(list) /\ DOMAIN calls = 1 .. Len(calls)
        /\ DOMAIN stream = 1 .. Len(stream) /\ DOMAIN parsed = 1 .. Len(parsed)
        /\ DOMAIN stack = 1 .. Len(stack) /\ DOMAIN frames = 1 .. Len(frames)
    BY <2>1 DEF Types
  <2>3. \A k \in DOMAIN stream : stream[k].kind \in Kinds /\ stream[k].by \in 0 .. Len(list)
    <3>1. \A k \in 1 .. Len(stream) : stream[k] \in Entry
      BY <2>1 DEF Types
    <3>. QED BY <2>2, <3>1 DEF Bounded, Entry
  <2>4. ASSUME NEW s \in Seq(Nat),
               \A n \in 1 .. Len(s) : \A m \in 1 .. n - 1 : s[m] < s[n]
        PROVE  \A m, n \in DOMAIN s : m < n => s[m] < s[n]
    BY <2>4
  <2>5. \A s \in {calls, stack, frames} : \A m, n \in DOMAIN s : m < n => s[m] < s[n]
    <3>1. \A m, n \in DOMAIN calls : m < n => calls[m] < calls[n]
      BY <2>1, <2>4, CallsAscend DEF Types
    <3>2. \A m, n \in DOMAIN stack : m < n => stack[m] < stack[n]
      <4>1. stack \in Seq(Nat) /\ \A n \in 1 .. Len(stack) : \A m \in 1 .. n - 1 : stack[m] < stack[n]
        BY <2>1 DEF Types, LInv, StackIsPath
      <4>. QED BY <2>4, <4>1
    <3>3. \A m, n \in DOMAIN frames : m < n => frames[m] < frames[n]
      <4>1. frames \in Seq(Nat) /\ \A n \in 1 .. Len(frames) : \A m \in 1 .. n - 1 : frames[m] < frames[n]
        BY <2>1 DEF Types, Bounded
      <4>. QED BY <2>4, <4>1
    <3>. QED BY <3>1, <3>2, <3>3
  <2>6. ToSet(calls) \subseteq DOMAIN list /\ ToSet(stack) \subseteq DOMAIN parsed
    BY <2>1, <2>2 DEF CallsAreNested, LInv, StackIsPath, ToSet
  <2>7. ToSet(frames) \subseteq 1 .. cursor
    BY <2>2 DEF Bounded, ToSet
  <2>8. /\ phase \in {"running", "parsing", "attaching", "attached"} /\ outcome \in Outcomes
        /\ outcome # "none" <=> phase = "attached"
    BY <2>1 DEF Types, Bounded
  <2>9. /\ Len(list) <= MaxInstructions /\ Len(parsed) <= Len(list)
        /\ cursor \in 0 .. Len(parsed) /\ at \in 0 .. Len(stream)
    BY DEF Bounded, LInv, ParsedFaithfully, FramesAreOpenCalls
  <2>. QED BY <2>3, <2>5, <2>6, <2>7, <2>8, <2>9 DEF TypeOK
<1>. QED BY <1>1, <1>2, <1>3, LInvHolds, PTL DEF LSpec

-----------------------------------------------------------------------------
(* Truncation.                                                             *)

Among(i, s) == \E n \in 1 .. Len(s) : s[n] = i

(* A call that is open at the end of the stream was open after any earlier *)
(* line, or was opened since.                                              *)
StillOpen ==
  \A k \in 0 .. Len(stream) : \A n \in 1 .. Len(Open(Len(stream))) :
     \/ Among(Open(Len(stream))[n], Open(k))
     \/ \E j \in k + 1 .. Len(stream) :
           stream[j].kind = "invoke" /\ stream[j].by = Open(Len(stream))[n]

(* An instruction that the cut met, or that came after it.                 *)
CutOff(i) ==
  \/ Among(i, Open(Len(stream)))
  \/ \A j \in 1 .. Len(stream) : stream[j].kind = "invoke" => stream[j].by < i

(* What is lost is lost to the cut, which is the last line.                *)
LossesAreCutOff ==
  /\ lost \subseteq 1 .. Len(list)
  /\ run.logging = "on" => lost = {}
  /\ run.logging = "cut" =>
        /\ Len(stream) # 0 /\ stream[Len(stream)].kind = "truncated"
        /\ \A i \in lost : CutOff(i)
        /\ \A n \in 1 .. Len(LoudCalls) : CutOff(LoudCalls[n])

(* The walk ends at the first line that reads as a cut.                    *)
NoCutWasRead ==
  phase = "attaching" => \A k \in 1 .. at : Effect(stream[k]) # "cut"

CutInv == StillOpen /\ LossesAreCutOff

(* The stream only grows, and by one line, unless all calls are closed.    *)
LEMMA StreamGrows ==
  ASSUME Types, CallsAreNested, Runtime
  PROVE  /\ Len(stream') \in Nat /\ Len(stream') >= Len(stream)
         /\ \A k \in 1 .. Len(stream) : stream'[k] = stream[k]
         /\ Len(stream') \in {Len(stream), Len(stream) + 1} \/ calls' = <<>>
<1>0. stream \in Seq(Entry) /\ Len(stream) \in Nat /\ calls \in Seq(Nat)
  BY DEF Types
<1> DEFINE Goal == /\ Len(stream') \in Nat /\ Len(stream') >= Len(stream)
                   /\ \A k \in 1 .. Len(stream) : stream'[k] = stream[k]
                   /\ Len(stream') \in {Len(stream), Len(stream) + 1} \/ calls' = <<>>
<1>1. stream' = stream => Goal
  BY <1>0
<1>2. ASSUME Len(stream') = Len(stream) + 1, \A k \in 1 .. Len(stream) : stream'[k] = stream[k]
      PROVE  Goal
  BY <1>0, <1>2
<1>3. ASSUME NEW p \in run.cast, NEW w \in Works[p], Invoke(p, w)
      PROVE  Goal
  <2> HIDE DEF Goal
  <2>. QED BY <1>1, <1>2, <1>3, InvokeWrites
<1>4. ASSUME NEW note \in UNION {Notes[p] : p \in run.cast}, Log(note)
      PROVE  Goal
  <2>1. note \in Note
    BY ProgramAssumption DEF Types, Note
  <2>2. list' = list /\ calls # <<>>
    BY <1>4 DEF Log
  <2>3. Record(Unless(IsSilent(Last(calls)), Line("note", Last(calls), 0, note, calls)))
    BY <1>4 DEF Log, Unless
  <2> HIDE DEF Goal
  <2>. QED BY <1>0, <1>1, <1>2, <2>1, <2>2, <2>3, CallWrites
<1>5. ASSUME Return PROVE Goal
  <2>1. NoNote \in Note
    BY DEF Note
  <2>2. list' = list /\ calls # <<>> /\ calls' \in Seq(Nat)
    BY <1>5, RuntimeTypes DEF Return, Types
  <2>3. Record(Unless(IsSilent(Last(calls)), Line("success", Last(calls), 0, NoNote, calls')))
    BY <1>5 DEF Return
  <2> HIDE DEF Goal
  <2>. QED BY <1>1, <1>2, <2>1, <2>2, <2>3, CallWrites
<1>6. ASSUME Fail PROVE Goal
  <2>1. calls' = <<>> /\ Len(LoudCalls) \in Nat
    BY <1>6, CallFacts DEF Fail
  <2>2. CASE Len(stream') = Len(stream) + Len(LoudCalls)
             /\ \A k \in 1 .. Len(stream) : stream'[k] = stream[k]
    BY <1>0, <2>1, <2>2
  <2>. QED BY <1>1, <1>6, <2>2, FailWrites
<1>7. ASSUME Cut PROVE Goal
  <2>1. PICK line : stream' = Append(stream, line)
    BY <1>7 DEF Cut
  <2>2. Len(stream') = Len(stream) + 1 /\ \A k \in 1 .. Len(stream) : stream'[k] = stream[k]
    BY <1>0, <2>1
  <2> HIDE DEF Goal
  <2>. QED BY <1>2, <2>2
<1>8. ASSUME NEW rest, Settle(rest) PROVE Goal
  BY <1>1, <1>8 DEF Settle
<1> HIDE DEF Goal
<1>9. Goal
  <2>1. CASE \E p \in run.cast : \E w \in Works[p] : Invoke(p, w)
    BY <1>3, <2>1
  <2>2. CASE \E note \in UNION {Notes[p] : p \in run.cast} : Log(note)
    BY <1>4, <2>2
  <2>3. CASE Settle(<<>>)
    BY <1>8, <2>3
  <2>4. CASE \E p \in run.cast \ Silent : \E w \in Works[p] :
               w.op # "event" /\ Settle(Unreached(p, w))
    BY <1>8, <2>4
  <2>. QED BY <1>5, <1>6, <1>7, <2>1, <2>2, <2>3, <2>4 DEF Runtime
<1>. QED BY <1>9 DEF Goal

(* A call that writes lines did so before the step, or was just made: its  *)
(* invoke is then the last line, if lines are recorded.                    *)
LEMMA LoudFacts ==
  ASSUME Types, CallsAreNested, Runtime, NEW n \in 1 .. Len(LoudCalls')
  PROVE  \/ Among(LoudCalls'[n], LoudCalls)
         \/ /\ LoudCalls'[n] = Len(list) + 1 /\ Len(list') = Len(list) + 1
            /\ run.logging = "on" =>
                  /\ Len(stream') = Len(stream) + 1
                  /\ stream'[Len(stream) + 1].kind = "invoke"
                  /\ stream'[Len(stream) + 1].by = Len(list) + 1
<1>0. /\ LoudCalls \in Seq(Nat) /\ calls \in Seq(Nat) /\ Len(LoudCalls) \in Nat
      /\ n \in Nat /\ list \in Seq(Instruction)
  BY CallFacts DEF Types
<1>1. LoudCalls' = LoudCalls => Among(LoudCalls'[n], LoudCalls)
  BY <1>0 DEF Among
<1>2. LoudCalls' # <<>>
  BY <1>0
<1>3. ASSUME NEW p \in run.cast, NEW w \in Works[p], Invoke(p, w)
      PROVE  \/ Among(LoudCalls'[n], LoudCalls)
             \/ /\ LoudCalls'[n] = Len(list) + 1 /\ Len(list') = Len(list) + 1
                /\ run.logging = "on" =>
                      /\ Len(stream') = Len(stream) + 1
                      /\ stream'[Len(stream) + 1].kind = "invoke"
                      /\ stream'[Len(stream) + 1].by = Len(list) + 1
  <2>1. /\ LoudCalls = calls /\ calls' = Append(calls, Len(list) + 1)
        /\ LoudCalls' = IF p \in Silent THEN calls ELSE calls'
    BY <1>3, LoudAfterInvoke
  <2>2. CASE p \in Silent
    BY <1>1, <2>1, <2>2
  <2>3. CASE p \notin Silent
    <3>1. LoudCalls' = Append(calls, Len(list) + 1)
      BY <2>1, <2>3
    <3>2. n \in 1 .. Len(calls) \/ n = Len(calls) + 1
      BY <1>0, <3>1
    <3>3. CASE n \in 1 .. Len(calls)
      BY <1>0, <2>1, <3>1, <3>3 DEF Among
    <3>4. CASE n = Len(calls) + 1
      <4>1. LoudCalls'[n] = Len(list) + 1
        BY <1>0, <3>1, <3>4
      <4>2. Len(list') = Len(list) + 1
        BY <1>3, InvokeFacts
      <4>3. run.logging = "on" =>
              /\ Len(stream') = Len(stream) + 1
              /\ stream'[Len(stream) + 1].kind = "invoke"
              /\ stream'[Len(stream) + 1].by = Len(list) + 1
        <5>1. ASSUME stream' = stream, run.logging = "on" PROVE FALSE
          <6>1. Record(<<Line("invoke", Len(list) + 1, Len(calls) + 1, NoNote, calls')>>)
            BY <1>3, <2>3 DEF Invoke, Unless
          <6>2. PICK line : stream' = stream \o <<line>>
            BY <5>1, <6>1 DEF Record
          <6>3. Len(stream \o <<line>>) = Len(stream) + 1 /\ Len(stream) \in Nat
            BY DEF Types
          <6>. QED BY <5>1, <6>2, <6>3
        <5>. QED BY <1>3, <2>3, <5>1, InvokeWrites
      <4>. QED BY <4>1, <4>2, <4>3
    <3>. QED BY <3>2, <3>3, <3>4
  <2>. QED BY <2>2, <2>3
<1>4. CASE Return
  <2>1. LoudCalls' = Front(calls) /\ calls # <<>>
    BY <1>4, LoudAfterReturn DEF Return
  <2>2. /\ Front(calls) \in Seq(Nat) /\ Len(Front(calls)) = Len(calls) - 1
        /\ \A k \in 1 .. Len(calls) - 1 : Front(calls)[k] = calls[k]
        /\ LoudCalls = IF IsSilent(Last(calls)) THEN Front(calls) ELSE calls
    BY <2>1, CallFacts
  <2>3. CASE IsSilent(Last(calls))
    BY <1>1, <2>1, <2>2, <2>3
  <2>4. CASE ~IsSilent(Last(calls))
    <3>1. n \in 1 .. Len(calls) - 1 /\ n \in 1 .. Len(calls) /\ LoudCalls = calls
      BY <1>0, <2>1, <2>2, <2>4
    <3>. QED BY <2>1, <2>2, <3>1 DEF Among
  <2>. QED BY <2>3, <2>4
<1>5. CASE Fail
  BY <1>2, <1>5 DEF Fail, LoudCalls
<1>6. ASSUME \/ \E note \in UNION {Notes[p] : p \in run.cast} : Log(note)
             \/ Cut
      PROVE  LoudCalls' = LoudCalls
  BY <1>6 DEF Log, Cut, LoudCalls, IsSilent
<1>7. ASSUME NEW rest, Settle(rest) PROVE LoudCalls' = LoudCalls
  BY <1>7 DEF Settle, LoudCalls
<1>. QED BY <1>1, <1>3, <1>4, <1>5, <1>6, <1>7 DEF Runtime

(* A line is lost only when nothing is recorded, by an open call or by the *)
(* one just made.                                                          *)
LEMMA LossFacts ==
  ASSUME Types, CallsAreNested, Runtime
  PROVE  /\ run.logging = "on" => lost' = lost
         /\ lost \subseteq lost'
         /\ \A i \in lost' \ lost :
               Among(i, LoudCalls) \/ (i = Len(list) + 1 /\ Len(list') = Len(list) + 1)
<1> DEFINE Goal == /\ run.logging = "on" => lost' = lost
                   /\ lost \subseteq lost'
                   /\ \A i \in lost' \ lost :
                         Among(i, LoudCalls) \/ (i = Len(list) + 1 /\ Len(list') = Len(list) + 1)
<1>0. calls \in Seq(Nat) /\ LoudCalls \in Seq(Nat) /\ Len(LoudCalls) \in Nat
  BY CallFacts DEF Types
<1>1. ASSUME NEW lines, Record(lines),
             \A k \in DOMAIN lines :
                \/ Among(lines[k].by, LoudCalls)
                \/ lines[k].by = Len(list) + 1 /\ Len(list') = Len(list) + 1
      PROVE  Goal
  BY <1>1 DEF Record
<1>2. ASSUME calls # <<>>, ~IsSilent(Last(calls))
      PROVE  Among(Last(calls), LoudCalls)
  <2>1. LoudCalls = calls /\ Last(calls) = calls[Len(calls)] /\ Len(calls) \in 1 .. Len(calls)
    BY <1>0, <1>2, CallFacts
  <2>. QED BY <2>1 DEF Among
<1>3. ASSUME lost' = lost PROVE Goal
  BY <1>3
<1>a. ASSUME NEW line PROVE DOMAIN <<line>> = {1} /\ <<line>>[1] = line
  OBVIOUS
<1>b. \A k : k \notin DOMAIN <<>>
  OBVIOUS
<1> HIDE DEF Goal
<1>4. ASSUME NEW line, NEW silent, Record(Unless(silent, line)),
             silent \/ Among(line.by, LoudCalls)
                    \/ (line.by = Len(list) + 1 /\ Len(list') = Len(list) + 1)
      PROVE  Goal
  <2>1. CASE silent
    <3>1. Record(<<>>)
      BY <1>4, <2>1 DEF Unless
    <3>. QED BY <1>1, <1>b, <3>1
  <2>2. CASE ~silent
    <3>1. Record(<<line>>)
      BY <1>4, <2>2 DEF Unless
    <3>. QED BY <1>1, <1>4, <1>a, <2>2, <3>1
  <2>. QED BY <2>1, <2>2
<1>5. ASSUME NEW p \in run.cast, NEW w \in Works[p], Invoke(p, w)
      PROVE  Goal
  <2> DEFINE line == Line("invoke", Len(list) + 1, Len(calls) + 1, NoNote, calls')
  <2>1. line.by = Len(list) + 1
    BY DEF Line
  <2>2. Record(Unless(p \in Silent, line)) /\ Len(list') = Len(list) + 1
    BY <1>5, InvokeFacts DEF Invoke
  <2> HIDE DEF line
  <2>. QED BY <1>4, <2>1, <2>2
<1>6. ASSUME NEW note \in UNION {Notes[p] : p \in run.cast}, Log(note)
      PROVE  Goal
  <2> DEFINE line == Line("note", Last(calls), 0, note, calls)
  <2>1. line.by = Last(calls)
    BY DEF Line
  <2>2. Record(<<line>>) /\ Among(Last(calls), LoudCalls)
    BY <1>2, <1>6 DEF Log
  <2> HIDE DEF line
  <2>. QED BY <1>1, <1>a, <2>1, <2>2
<1>7. ASSUME Return PROVE Goal
  <2> DEFINE line == Line("success", Last(calls), 0, NoNote, calls')
  <2>1. line.by = Last(calls)
    BY DEF Line
  <2>2. Record(Unless(IsSilent(Last(calls)), line))
    BY <1>7 DEF Return
  <2> HIDE DEF line
  <2>3. CASE IsSilent(Last(calls))
    <3>1. Record(<<>>)
      BY <2>2, <2>3 DEF Unless
    <3>. QED BY <1>1, <1>b, <3>1
  <2>4. CASE ~IsSilent(Last(calls))
    <3>1. Record(<<line>>)
      BY <2>2, <2>4 DEF Unless
    <3>2. Among(Last(calls), LoudCalls)
      BY <1>2, <1>7, <2>4 DEF Return
    <3>. QED BY <1>1, <1>a, <2>1, <3>1, <3>2
  <2>. QED BY <2>3, <2>4
<1>8. ASSUME Fail PROVE Goal
  <2> DEFINE L(n) == Line("failed", calls[Len(LoudCalls) - n + 1], 0, NoNote,
                          SubSeq(calls, 1, Len(LoudCalls) - n))
             lines == [n \in DOMAIN LoudCalls |-> L(n)]
  <2>1. Record(lines)
    BY <1>8 DEF Fail
  <2>2. ASSUME NEW n \in DOMAIN lines
        PROVE  Among(lines[n].by, LoudCalls)
    <3>1. n \in 1 .. Len(LoudCalls) /\ lines[n] = L(n)
      BY <1>0
    <3>2. Len(LoudCalls) - n + 1 \in 1 .. Len(LoudCalls)
      BY <1>0, <3>1
    <3>3. LoudCalls[Len(LoudCalls) - n + 1] = calls[Len(LoudCalls) - n + 1]
      BY <3>2, CallFacts
    <3>4. L(n).by = calls[Len(LoudCalls) - n + 1]
      BY DEF Line
    <3>. QED BY <3>1, <3>2, <3>3, <3>4 DEF Among
  <2> HIDE DEF lines
  <2>3. PICK all : all = lines
    OBVIOUS
  <2>4. Record(all) /\ \A n \in DOMAIN all : Among(all[n].by, LoudCalls)
    BY <2>1, <2>2, <2>3
  <2>. QED BY <1>1, <2>4
<1>9. ASSUME Cut PROVE Goal
  BY <1>3, <1>9 DEF Cut
<1>10. ASSUME NEW rest, Settle(rest) PROVE Goal
  BY <1>3, <1>10 DEF Settle
<1>11. Goal
  <2>1. CASE \E p \in run.cast : \E w \in Works[p] : Invoke(p, w)
    BY <1>5, <2>1
  <2>2. CASE \E note \in UNION {Notes[p] : p \in run.cast} : Log(note)
    BY <1>6, <2>2
  <2>3. CASE Settle(<<>>)
    BY <1>10, <2>3
  <2>4. CASE \E p \in run.cast \ Silent : \E w \in Works[p] :
               w.op # "event" /\ Settle(Unreached(p, w))
    BY <1>10, <2>4
  <2>. QED BY <1>7, <1>8, <1>9, <2>1, <2>2, <2>3, <2>4 DEF Runtime
<1>. QED BY <1>11 DEF Goal

(* The stream is written while it is on, and only the cut turns it off.    *)
LEMMA LoggingFacts ==
  ASSUME Types, CallsAreNested, OpensFollow, Runtime
  PROVE  /\ stream' # stream =>
               /\ run.logging = "on"
               /\ Open(Len(stream)) = LoudCalls
               /\ Open(Len(stream))' = LoudCalls'
         /\ run'.logging = run.logging \/ Cut
<1>0. /\ phase = "running" /\ stream \in Seq(Entry) /\ Len(stream) \in Nat
      /\ LoudCalls \in Seq(Nat)
  BY RuntimeRuns, CallFacts DEF Types
<1>1. run'.logging = run.logging \/ Cut
  <2>1. UNCHANGED run \/ run' = [run EXCEPT !.ok = FALSE] \/ Cut
    BY DEF Runtime, Invoke, Log, Return, Fail, Settle
  <2>. QED BY <2>1 DEF Types
<1>2. ASSUME stream' # stream PROVE run.logging = "on" /\ phase' = "running"
  BY <1>0, <1>2 DEF Runtime, Invoke, Log, Return, Fail, Cut, Settle, Record
<1>3. ASSUME stream' # stream PROVE Open(Len(stream)) = LoudCalls
  BY <1>0, <1>2, <1>3 DEF OpensFollow
<1>4. ASSUME stream' # stream PROVE Open(Len(stream))' = LoudCalls'
  <2>1. CASE Cut
    <3>1. stream' = Append(stream, Line("truncated", None, 0, NoNote, LoudCalls))
      BY <2>1 DEF Cut
    <3>2. /\ Len(stream') = Len(stream) + 1
          /\ stream'[Len(stream) + 1] = Line("truncated", None, 0, NoNote, LoudCalls)
      BY <1>0, <3>1
    <3>3. stream'[Len(stream')].open = LoudCalls /\ Len(stream') # 0
      BY <1>0, <3>2 DEF Line
    <3>4. LoudCalls' = LoudCalls
      BY <2>1 DEF Cut, LoudCalls, IsSilent
    <3>. QED BY <3>3, <3>4 DEF Open
  <2>2. CASE ~Cut
    <3>1. run'.logging = "on" /\ phase' = "running"
      BY <1>1, <1>2, <1>4, <2>2
    <3>2. OpensFollow'
      BY OpensInductive
    <3>. QED BY <3>1, <3>2 DEF OpensFollow
  <2>. QED BY <2>1, <2>2
<1>. QED BY <1>1, <1>2, <1>3, <1>4

(* The calls open at the end are those that were, or one just invoked.     *)
LEMMA StillOpenInductive ==
  ASSUME Types, CallsAreNested, OpensFollow, StillOpen, Runtime
  PROVE  StillOpen'
<1>0. /\ stream \in Seq(Entry) /\ Len(stream) \in Nat /\ Len(stream') \in Nat
      /\ Len(stream') >= Len(stream) /\ LoudCalls' \in Seq(Nat) /\ Len(LoudCalls') \in Nat
      /\ \A k \in 1 .. Len(stream) : stream'[k] = stream[k]
      /\ Len(stream') = Len(stream) + 1 \/ stream' = stream \/ calls' = <<>>
  <2>1. Types'
    BY RuntimeTypes
  <2>2. LoudCalls' \in Seq(Nat) /\ Len(LoudCalls') \in Nat
    <3>1. PICK s \in Seq(Nat) : s = calls'
      BY <2>1 DEF Types
    <3>2. LoudCalls' = s \/ (s # <<>> /\ LoudCalls' = Front(s))
      BY <3>1 DEF LoudCalls
    <3>. QED BY <3>2, FrontFacts
  <2>3. stream' \in Seq(Entry) /\ stream \in Seq(Entry)
    BY <2>1 DEF Types
  <2>4. Len(stream') = Len(stream) /\ (\A k \in 1 .. Len(stream) : stream'[k] = stream[k])
           => stream' = stream
    BY <2>3, SameSeq
  <2>. QED BY <2>2, <2>3, <2>4, StreamGrows
<1>1. CASE stream' = stream
  BY <1>1 DEF StillOpen, Open
<1>2. CASE stream' # stream
  <2>1. /\ run.logging = "on" /\ Open(Len(stream)) = LoudCalls /\ Open(Len(stream))' = LoudCalls'
    BY <1>2, LoggingFacts
  <2>2. \A k \in 0 .. Len(stream) : Open(k)' = Open(k)
    BY <1>0, OpensKept
  <2>3. ASSUME NEW n \in 1 .. Len(LoudCalls'), NEW k \in 0 .. Len(stream')
        PROVE  \/ Among(LoudCalls'[n], Open(k)')
               \/ \E j \in k + 1 .. Len(stream') :
                     stream'[j].kind = "invoke" /\ stream'[j].by = LoudCalls'[n]
    <3>0. /\ LoudCalls' # <<>> /\ calls' # <<>> /\ Len(stream') = Len(stream) + 1
      <4>1. LoudCalls' # <<>>
        BY <1>0
      <4>. QED BY <1>0, <1>2, <4>1 DEF LoudCalls
    <3>1. CASE k = Len(stream')
      BY <2>1, <3>1 DEF Among
    <3>2. CASE k # Len(stream')
      <4>1. k \in 0 .. Len(stream) /\ Len(stream) + 1 \in k + 1 .. Len(stream')
        BY <1>0, <3>0, <3>2
      <4>2. CASE Among(LoudCalls'[n], LoudCalls)
        <5>1. PICK m \in 1 .. Len(LoudCalls) : LoudCalls[m] = LoudCalls'[n]
          BY <4>2 DEF Among
        <5>2. \/ Among(LoudCalls[m], Open(k))
              \/ \E j \in k + 1 .. Len(stream) :
                    stream[j].kind = "invoke" /\ stream[j].by = LoudCalls[m]
          BY <2>1, <4>1, <5>1 DEF StillOpen
        <5>3. CASE Among(LoudCalls[m], Open(k))
          BY <2>2, <4>1, <5>1, <5>3
        <5>4. ASSUME NEW j \in k + 1 .. Len(stream),
                     stream[j].kind = "invoke", stream[j].by = LoudCalls[m]
              PROVE  \E i \in k + 1 .. Len(stream') :
                        stream'[i].kind = "invoke" /\ stream'[i].by = LoudCalls'[n]
          <6>1. j \in k + 1 .. Len(stream') /\ j \in 1 .. Len(stream)
            BY <1>0, <3>0, <4>1
          <6>. QED BY <1>0, <5>1, <5>4, <6>1
        <5>. QED BY <5>2, <5>3, <5>4
      <4>3. CASE ~Among(LoudCalls'[n], LoudCalls)
        <5>1. /\ LoudCalls'[n] = Len(list) + 1
              /\ stream'[Len(stream) + 1].kind = "invoke"
              /\ stream'[Len(stream) + 1].by = Len(list) + 1
          BY <2>1, <4>3, LoudFacts
        <5>. QED BY <4>1, <5>1
      <4>. QED BY <4>2, <4>3
    <3>. QED BY <3>1, <3>2
  <2>. QED BY <2>1, <2>3 DEF StillOpen
<1>. QED BY <1>1, <1>2

(* After the cut nothing is written, and only calls it met, or later ones, *)
(* have lines to lose.                                                     *)
LEMMA LossesInductive ==
  ASSUME Types, CallsAreNested, InvokesAreOrdered, OpensFollow, LossesAreCutOff, Runtime
  PROVE  LossesAreCutOff'
<1>0. /\ Len(list) \in Nat /\ Len(list') \in Nat /\ Len(list) <= Len(list')
      /\ stream \in Seq(Entry) /\ Len(stream) \in Nat
      /\ \A n \in 1 .. Len(LoudCalls) : LoudCalls[n] \in 1 .. Len(list)
  <2>1. list' \in Seq(Instruction) /\ list \in Seq(Instruction)
    BY RuntimeTypes DEF Types
  <2>2. Len(list') \in {Len(list), Len(list) + 1}
    BY ListGrows
  <2>3. stream \in Seq(Entry) /\ Len(stream) \in Nat
    BY DEF Types
  <2>4. \A n \in 1 .. Len(LoudCalls) : LoudCalls[n] \in 1 .. Len(list)
    BY CallFacts
  <2>. QED BY <2>1, <2>2, <2>3, <2>4
<1>1. lost' \subseteq 1 .. Len(list')
  <2>1. ASSUME NEW i \in lost' PROVE i \in 1 .. Len(list')
    <3>1. CASE i \in lost
      BY <1>0, <3>1 DEF LossesAreCutOff
    <3>2. CASE i \notin lost
      BY <1>0, <2>1, <3>2, LossFacts DEF Among
    <3>. QED BY <3>1, <3>2
  <2>. QED BY <2>1
<1>2. run'.logging = "on" => lost' = {}
  <2>1. Cut => run'.logging = "cut"
    BY DEF Cut, Types
  <2>. QED BY <2>1, LoggingFacts, LossFacts DEF LossesAreCutOff
<1>3. ASSUME run'.logging = "cut"
      PROVE  /\ Len(stream') # 0 /\ stream'[Len(stream')].kind = "truncated"
             /\ \A i \in lost' : CutOff(i)'
             /\ \A n \in 1 .. Len(LoudCalls') : CutOff(LoudCalls[n])'
  <2>1. CASE Cut
    <3>1. stream' = Append(stream, Line("truncated", None, 0, NoNote, LoudCalls))
      BY <2>1 DEF Cut
    <3>2. /\ Len(stream') = Len(stream) + 1
          /\ stream'[Len(stream) + 1] = Line("truncated", None, 0, NoNote, LoudCalls)
      BY <1>0, <3>1
    <3>3. Len(stream') # 0 /\ stream'[Len(stream')].kind = "truncated" /\ stream' # stream
      BY <1>0, <3>2 DEF Line
    <3>4. \A i : i \notin lost'
      BY <2>1 DEF Cut, LossesAreCutOff
    <3>5. Open(Len(stream))' = LoudCalls'
      BY <3>3, LoggingFacts
    <3>6. \A n \in 1 .. Len(LoudCalls') : CutOff(LoudCalls[n])'
      BY <3>5 DEF CutOff, Among
    <3>. QED BY <3>3, <3>4, <3>6
  <2>2. CASE ~Cut
    <3>1. run.logging = "cut" /\ stream' = stream
      BY <1>3, <2>2, LoggingFacts
    <3>2. ASSUME NEW i, CutOff(i) PROVE CutOff(i)'
      BY <3>1, <3>2 DEF CutOff, Open
    <3>3. ASSUME NEW i, i = Len(list) + 1 PROVE CutOff(i)'
      <4>1. \A j \in 1 .. Len(stream) : stream[j].kind = "invoke" => stream[j].by < i
        BY <1>0, <3>3 DEF InvokesAreOrdered, OrderedAt
      <4>. QED BY <3>1, <4>1 DEF CutOff
    <3>4. /\ Len(stream) # 0 /\ stream[Len(stream)].kind = "truncated"
          /\ \A i \in lost : CutOff(i)
          /\ \A n \in 1 .. Len(LoudCalls) : CutOff(LoudCalls[n])
      BY <3>1 DEF LossesAreCutOff
    <3>5. ASSUME NEW i, Among(i, LoudCalls) PROVE CutOff(i)'
      <4>1. PICK n \in 1 .. Len(LoudCalls) : LoudCalls[n] = i
        BY <3>5 DEF Among
      <4>2. CutOff(i)
        BY <3>4, <4>1
      <4>. QED BY <3>2, <4>2
    <3>6. ASSUME NEW i \in lost' PROVE CutOff(i)'
      <4>1. CASE i \in lost
        BY <3>2, <3>4, <4>1
      <4>2. CASE i \notin lost
        <5>1. Among(i, LoudCalls) \/ i = Len(list) + 1
          BY <3>6, <4>2, LossFacts
        <5>. QED BY <3>3, <3>5, <5>1
      <4>. QED BY <4>1, <4>2
    <3>7. ASSUME NEW n \in 1 .. Len(LoudCalls') PROVE CutOff(LoudCalls[n])'
      <4>1. PICK i : i = LoudCalls'[n]
        OBVIOUS
      <4>2. Among(i, LoudCalls) \/ i = Len(list) + 1
        BY <4>1, LoudFacts
      <4>3. CutOff(i)'
        BY <3>3, <3>5, <4>2
      <4>. QED BY <4>1, <4>3
    <3>. QED BY <3>1, <3>4, <3>6, <3>7
  <2>. QED BY <2>1, <2>2
<1>. QED BY <1>1, <1>2, <1>3 DEF LossesAreCutOff

(* What holds of the cut is kept by every step.                            *)
LEMMA CutInvInductive ==
  ASSUME LInv, CutInv, [LNext]_lvars
  PROVE  CutInv'
<1>1. CASE Runtime
  BY <1>1, StillOpenInductive, LossesInductive DEF LInv, RuntimeInv, CutInv
<1>2. CASE UNCHANGED runtime
  BY <1>2 DEF CutInv, StillOpen, LossesAreCutOff, CutOff, Open, LoudCalls, IsSilent, runtime
<1>. QED BY <1>1, <1>2, ParserRuns DEF LNext, lvars

(* A line that reads as the cut ends the walk.                             *)
LEMMA NoCutInductive ==
  ASSUME LInv, NoCutWasRead, [LNext]_lvars
  PROVE  NoCutWasRead'
<1>1. CASE Runtime
  BY <1>1, RuntimeRuns DEF NoCutWasRead
<1>2. CASE ParseInstruction
  BY <1>2 DEF ParseInstruction, NoCutWasRead
<1>3. CASE StartAttaching
  <2>1. at' = 0
    BY <1>3 DEF StartAttaching, parser, LInv, FramesAreOpenCalls
  <2>. QED BY <2>1 DEF NoCutWasRead
<1>4. CASE AttachLine
  <2>1. ASSUME phase' = "attaching", NEW k \in 1 .. at' PROVE Effect(stream'[k]) # "cut"
    <3>1. stream' = stream /\ at' = at + 1 /\ phase = "attaching" /\ at \in Nat
      BY <1>4 DEF AttachLine, runtime, LInv, Types
    <3>2. ~AttachCut
      BY <2>1 DEF AttachCut, Exit
    <3>3. Effect(stream[at + 1]) # "cut"
      <4>1. \/ Effect(stream[at + 1]) = "cut" /\ AttachCut
            \/ Effect(stream[at + 1]) \in {"open", "close", "body"}
        BY <1>4 DEF AttachLine
      <4>. QED BY <3>2, <4>1
    <3>4. k \in 1 .. at \/ k = at + 1
      BY <3>1
    <3>. QED BY <3>1, <3>3, <3>4 DEF NoCutWasRead
  <2>. QED BY <2>1 DEF NoCutWasRead
<1>5. CASE AttachEnd
  BY <1>5 DEF AttachEnd, Exit, NoCutWasRead
<1>6. CASE UNCHANGED lvars
  BY <1>6 DEF NoCutWasRead, lvars, runtime, parser
<1>. QED BY <1>1, <1>2, <1>3, <1>4, <1>5, <1>6 DEF LNext, Parser

(* An instruction that the cut met is open where the walk stops, or comes  *)
(* later, even if what stops the walk is an earlier line.                  *)
LEMMA CutOffIsToldOfTheCut ==
  ASSUME LInv, StillOpen, phase = "attaching", at < Len(stream),
         NEW i \in 1 .. Len(list), CutOff(i)
  PROVE  Among(i, frames) \/ i > cursor
<1>0. /\ at \in 0 .. Len(stream) /\ at \in Nat /\ cursor \in Nat /\ Len(stream) \in Nat
      /\ frames = Open(at) /\ stream \in Seq(Entry)
      /\ cursor = 0 \/ \E j \in 1 .. at : stream[j].kind = "invoke" /\ stream[j].by = cursor
  BY DEF LInv, Types, FramesAreOpenCalls
<1>1. CASE \A j \in 1 .. Len(stream) : stream[j].kind = "invoke" => stream[j].by < i
  BY <1>0, <1>1
<1>2. ASSUME NEW j \in at + 1 .. Len(stream), stream[j].kind = "invoke", stream[j].by = i
      PROVE  i > cursor
  <2>1. j \in 1 .. Len(stream) /\ \A l \in 1 .. at : l \in 1 .. j - 1
    BY <1>0
  <2>2. \A l \in 1 .. j - 1 : stream[l].kind = "invoke" => stream[l].by < stream[j].by
    BY <1>2, <2>1 DEF LInv, RuntimeInv, InvokesAreOrdered, OrderedAt
  <2>. QED BY <1>0, <1>2, <2>1, <2>2
<1>3. CASE Among(i, Open(Len(stream)))
  <2>1. PICK n \in 1 .. Len(Open(Len(stream))) : Open(Len(stream))[n] = i
    BY <1>3 DEF Among
  <2>2. \/ Among(i, Open(at))
        \/ \E j \in at + 1 .. Len(stream) : stream[j].kind = "invoke" /\ stream[j].by = i
    BY <1>0, <2>1 DEF StillOpen
  <2>. QED BY <1>0, <1>2, <2>2
<1>. QED BY <1>1, <1>3 DEF CutOff

(* Every step of the walk keeps the property.                              *)
LEMMA MarkedInductive ==
  ASSUME LInv, CutInv, NoCutWasRead, TruncationIsMarked, [LNext]_lvars
  PROVE  TruncationIsMarked'
<1>1. CASE Runtime \/ ParseInstruction \/ StartAttaching
  BY <1>1, RuntimeRuns DEF ParseInstruction, StartAttaching, TruncationIsMarked
<1>2. CASE AttachLine
  <2>0. /\ UNCHANGED <<list, stream, lost, run>> /\ phase = "attaching" /\ at < Len(stream)
        /\ parsed \in Seq(Parsed) /\ Len(parsed) = Len(list) /\ frames \in Seq(Nat)
    BY <1>2 DEF AttachLine, runtime, LInv, Types, ParsedFaithfully
  <2>1. CASE AttachCut
    <3> DEFINE to == ToSet(frames) \cup {i \in DOMAIN parsed : i > cursor}
    <3>1. parsed' = Attached(to, Marker) /\ outcome' = "truncated" /\ Marker \in Nat
      BY <2>1 DEF AttachCut, Exit, Marker
    <3>2. ASSUME run.logging = "cut", NEW i \in lost
          PROVE  Marker \in ToSet(parsed'[i].logs)
      <4>1. i \in 1 .. Len(list) /\ i \in 1 .. Len(parsed) /\ CutOff(i)
        BY <2>0, <3>2 DEF CutInv, LossesAreCutOff
      <4>2. i \in to
        <5>1. Among(i, frames) \/ i > cursor
          BY <2>0, <4>1, CutOffIsToldOfTheCut DEF CutInv
        <5>. QED BY <2>0, <4>1, <5>1 DEF Among, ToSet
      <4> HIDE DEF to
      <4>3. parsed'[i].logs = Append(parsed[i].logs, Marker)
        BY <2>0, <3>1, <4>1, <4>2, AttachedFacts
      <4>4. parsed[i] \in Parsed
        BY <2>0, <4>1
      <4>5. parsed[i].logs \in Seq(Nat)
        BY <4>4 DEF Parsed
      <4>6. PICK s \in Seq(Nat) : s = parsed[i].logs
        BY <4>5
      <4>7. /\ Len(s) + 1 \in DOMAIN Append(s, Marker)
            /\ Append(s, Marker)[Len(s) + 1] = Marker
        BY <3>1
      <4>. QED BY <4>3, <4>6, <4>7 DEF ToSet
    <3>. QED BY <2>0, <3>1, <3>2 DEF TruncationIsMarked, Slice
  <2>2. CASE ~AttachCut
    <3>1. phase' = "attaching" \/ outcome' \in {"overrun", "desynced"}
      BY <1>2, <2>0, <2>2 DEF AttachLine, AttachOpen, AttachClose, AttachBody, Exit
    <3>. QED BY <3>1 DEF TruncationIsMarked
  <2>. QED BY <2>1, <2>2
<1>3. CASE AttachEnd
  <2>1. at = Len(stream) /\ phase = "attaching" /\ UNCHANGED runtime
    BY <1>3 DEF AttachEnd
  <2>2. run.logging # "cut"
    <3>1. ASSUME run.logging = "cut" PROVE FALSE
      <4>1. Len(stream) # 0 /\ stream[Len(stream)].kind = "truncated" /\ Len(stream) \in Nat
        BY <3>1 DEF CutInv, LossesAreCutOff, LInv, Types
      <4>2. PICK n \in 1 .. at : n = Len(stream)
        BY <2>1, <4>1
      <4>3. Effect(stream[n]) = "cut"
        BY <4>1, <4>2 DEF Effect
      <4>. QED BY <2>1, <4>2, <4>3 DEF NoCutWasRead
    <3>. QED BY <3>1
  <2>. QED BY <2>1, <2>2 DEF TruncationIsMarked, runtime
<1>4. CASE UNCHANGED lvars
  BY <1>4 DEF TruncationIsMarked, Slice, lvars, runtime, parser
<1>. QED BY <1>1, <1>2, <1>3, <1>4 DEF LNext, Parser

(* attach_logs (instruction.rs): when the runtime cut the stream and the   *)
(* walk reached a line that says so, every instruction that lost a line    *)
(* carries the marker, the open ones and those never opened, also when the *)
(* walk was stopped early by a program that logged the words of the cut.   *)
THEOREM TruncationAlwaysMarked == LSpec => []TruncationIsMarked
<1>1. LInit => CutInv /\ NoCutWasRead /\ TruncationIsMarked
  BY DEF LInit, CutInv, StillOpen, LossesAreCutOff, Open, NoCutWasRead, TruncationIsMarked
<1>2. LInv /\ CutInv /\ NoCutWasRead /\ TruncationIsMarked /\ [LNext]_lvars
        => CutInv' /\ NoCutWasRead' /\ TruncationIsMarked'
  BY CutInvInductive, NoCutInductive, MarkedInductive
<1>. QED BY <1>1, <1>2, LInvHolds, PTL DEF LSpec

-----------------------------------------------------------------------------
(* What the stream tells of an instruction.                                *)

(* A line names its writer and, if an invoke, its height; the cut names    *)
(* nobody.                                                                 *)
Named ==
  {e \in Entry :
     /\ e.kind = "truncated" <=> e.by = None
     /\ e.by # None => e.by \in 1 .. Len(list) /\ e.program = list[e.by].program
     /\ e.kind = "invoke" => e.depth = list[e.by].height}

Plain == {e \in Named : e.kind # "truncated"}

(* The cut is the last line and turns recording off; where nothing is      *)
(* recorded there are no lines; a stream that was recorded to its end      *)
(* leaves no call open.                                                    *)
StreamIsSound ==
  /\ \A k \in 1 .. Len(stream) :
        stream[k] \in Named /\ (stream[k].kind = "truncated" => k = Len(stream))
  /\ run.logging = "on" => \A k \in 1 .. Len(stream) : stream[k] \in Plain
  /\ run.logging = "suppressed" => stream = <<>>
  /\ phase # "running" /\ run.logging = "on" => Open(Len(stream)) = <<>>

(* What was said of the list stays said of it.                             *)
LEMMA NamedGrows ==
  ASSUME Types, CallsAreNested, Runtime
  PROVE  /\ \A e \in Named : e \in Named'
         /\ \A e \in Plain : e \in Plain'
<1>1. /\ list \in Seq(Instruction) /\ list' \in Seq(Instruction)
      /\ Len(list) \in Nat /\ Len(list') \in Nat /\ Len(list) <= Len(list')
      /\ \A i \in 1 .. Len(list) : list'[i] = list[i]
  <2>1. list \in Seq(Instruction) /\ list' \in Seq(Instruction)
    BY RuntimeTypes DEF Types
  <2>2. Len(list') \in {Len(list), Len(list) + 1} /\ \A i \in 1 .. Len(list) : list'[i] = list[i]
    BY ListGrows
  <2>. QED BY <2>1, <2>2
<1>2. ASSUME NEW e \in Named PROVE e \in Named'
  <2>1. /\ e \in Entry
        /\ e.kind = "truncated" <=> e.by = None
        /\ e.by # None => e.by \in 1 .. Len(list) /\ e.program = list[e.by].program
        /\ e.kind = "invoke" => e.depth = list[e.by].height
    BY DEF Named
  <2>2. e.by # None => e.by \in 1 .. Len(list') /\ list'[e.by] = list[e.by]
    BY <1>1, <2>1
  <2>3. e.kind = "invoke" => e.by # None
    BY <2>1
  <2>. QED BY <2>1, <2>2, <2>3 DEF Named
<1>. QED BY <1>2 DEF Plain

(* A line of a call names the call.                                        *)
LEMMA LineNamed ==
  ASSUME list' \in Seq(Instruction), NEW kind \in Kinds \ {"truncated"}, NEW by \in 1 .. Len(list'),
         NEW depth \in Nat, NEW note \in Note, NEW open \in Seq(Nat),
         kind = "invoke" => depth = list'[by].height
  PROVE  Line(kind, by, depth, note, open) \in Plain'
<1> DEFINE line == Line(kind, by, depth, note, open)
<1>1. by \in Nat /\ by # None
  BY DEF None
<1>2. /\ line \in Entry /\ line.kind = kind /\ line.by = by /\ line.program = list'[by].program
  BY <1>1, LineType
<1>3. line.depth = depth
  BY DEF Line
<1> HIDE DEF line
<1>4. line \in Named'
  BY <1>1, <1>2, <1>3 DEF Named
<1>5. line \in Plain'
  BY <1>2, <1>4 DEF Plain
<1>. QED BY <1>5 DEF line

(* What the run writes, but for the cut: lines of calls, if it is on.      *)
LEMMA LinesOfCalls ==
  ASSUME Types, CallsAreNested, Runtime, ~Cut
  PROVE  \E lines \in Seq(Plain') :
            stream' = stream \o lines /\ (run.logging = "on" \/ lines = <<>>)
<1> DEFINE Goal == \E lines \in Seq(Plain') :
                      stream' = stream \o lines /\ (run.logging = "on" \/ lines = <<>>)
<1>0. /\ stream \in Seq(Entry) /\ list \in Seq(Instruction) /\ calls \in Seq(Nat)
      /\ list' \in Seq(Instruction) /\ calls' \in Seq(Nat) /\ Len(calls) \in Nat
      /\ LoudCalls \in Seq(Nat) /\ Len(LoudCalls) \in Nat /\ Len(LoudCalls) <= Len(calls)
  <2>1. Types'
    BY RuntimeTypes
  <2>2. LoudCalls \in Seq(Nat) /\ Len(LoudCalls) <= Len(calls)
    BY CallFacts
  <2>3. Len(LoudCalls) \in Nat
    BY <2>2
  <2>. QED BY <2>1, <2>2, <2>3 DEF Types
<1>1. ASSUME stream' = stream PROVE Goal
  <2>1. <<>> \in Seq(Plain') /\ stream \o <<>> = stream
    BY <1>0
  <2>. QED BY <1>1, <2>1
<1>2. ASSUME NEW lines \in Seq(Plain'), Record(lines) PROVE Goal
  <2>1. CASE run.logging = "on"
    BY <1>2, <2>1 DEF Record
  <2>2. CASE run.logging # "on"
    BY <1>1, <1>2, <2>2 DEF Record
  <2>. QED BY <2>1, <2>2
<1> HIDE DEF Goal
<1>3. ASSUME NEW line \in Plain', NEW silent, Record(Unless(silent, line))
      PROVE  Goal
  <2>1. CASE silent
    <3>1. Record(<<>>) /\ <<>> \in Seq(Plain')
      BY <1>3, <2>1 DEF Unless
    <3>. QED BY <1>2, <3>1
  <2>2. CASE ~silent
    <3>1. Record(<<line>>) /\ <<line>> \in Seq(Plain')
      BY <1>3, <2>2 DEF Unless
    <3>. QED BY <1>2, <3>1
  <2>. QED BY <2>1, <2>2
<1>a. {"invoke", "note", "success", "failed"} \subseteq Kinds \ {"truncated"} /\ NoNote \in Note
  BY DEF Kinds, Note
<1>4. ASSUME NEW p \in run.cast, NEW w \in Works[p], Invoke(p, w)
      PROVE  Goal
  <2> DEFINE line == Line("invoke", Len(list) + 1, Len(calls) + 1, NoNote, calls')
  <2>1. /\ Len(list') = Len(list) + 1
        /\ list'[Len(list) + 1].height = Len(calls) + 1
    BY <1>4, InvokeFacts
  <2>2. Len(list) + 1 \in 1 .. Len(list') /\ Len(calls) + 1 \in Nat
    BY <1>0, <2>1
  <2>3. line \in Plain'
    BY <1>0, <1>a, <2>1, <2>2, LineNamed
  <2>4. Record(Unless(p \in Silent, line))
    BY <1>4 DEF Invoke
  <2> HIDE DEF line
  <2>. QED BY <1>3, <2>3, <2>4
<1>5. ASSUME NEW note \in UNION {Notes[p] : p \in run.cast}, Log(note)
      PROVE  Goal
  <2> DEFINE line == Line("note", Last(calls), 0, note, calls)
  <2>1. note \in Note
    BY ProgramAssumption DEF Types, Note
  <2>2. calls # <<>> /\ list' = list /\ Record(<<line>>)
    BY <1>5 DEF Log
  <2>3. Last(calls) \in 1 .. Len(list')
    BY <2>2, CallFacts
  <2>4. line \in Plain'
    BY <1>0, <1>a, <2>1, <2>3, LineNamed
  <2> HIDE DEF line
  <2>5. <<line>> \in Seq(Plain')
    BY <2>4
  <2>. QED BY <1>2, <2>2, <2>5
<1>6. ASSUME Return PROVE Goal
  <2> DEFINE line == Line("success", Last(calls), 0, NoNote, calls')
  <2>1. calls # <<>> /\ list' = list /\ Record(Unless(IsSilent(Last(calls)), line))
    BY <1>6 DEF Return
  <2>2. Last(calls) \in 1 .. Len(list')
    BY <2>1, CallFacts
  <2>3. line \in Plain'
    BY <1>0, <1>a, <2>2, LineNamed
  <2> HIDE DEF line
  <2>. QED BY <1>3, <2>1, <2>3
<1>7. ASSUME Fail PROVE Goal
  <2> DEFINE L(n) == Line("failed", calls[Len(LoudCalls) - n + 1], 0, NoNote,
                          SubSeq(calls, 1, Len(LoudCalls) - n))
             lines == [n \in DOMAIN LoudCalls |-> L(n)]
  <2>1. Record(lines)
    BY <1>7 DEF Fail
  <2>2. ASSUME NEW n \in 1 .. Len(LoudCalls)
        PROVE  L(n) \in Plain'
    <3>1. Len(LoudCalls) - n \in 0 .. Len(calls) /\ Len(LoudCalls) - n + 1 \in 1 .. Len(LoudCalls)
      BY <1>0
    <3>2. SubSeq(calls, 1, Len(LoudCalls) - n) \in Seq(Nat)
      BY <1>0, <3>1, PrefixFacts
    <3>3. calls[Len(LoudCalls) - n + 1] \in 1 .. Len(list')
      BY <1>7, <3>1, CallFacts DEF Fail
    <3>. QED BY <1>0, <1>a, <3>2, <3>3, LineNamed
  <2>3. lines \in Seq(Plain')
    <3>1. DOMAIN LoudCalls = 1 .. Len(LoudCalls)
      BY <1>0
    <3> HIDE DEF L
    <3>. QED BY <1>0, <2>2, <3>1
  <2> HIDE DEF lines
  <2>. QED BY <1>2, <2>1, <2>3
<1>8. ASSUME NEW rest, Settle(rest) PROVE Goal
  BY <1>1, <1>8 DEF Settle
<1>9. Goal
  <2>1. CASE \E p \in run.cast : \E w \in Works[p] : Invoke(p, w)
    BY <1>4, <2>1
  <2>2. CASE \E note \in UNION {Notes[p] : p \in run.cast} : Log(note)
    BY <1>5, <2>2
  <2>3. CASE Settle(<<>>)
    BY <1>8, <2>3
  <2>4. CASE \E p \in run.cast \ Silent : \E w \in Works[p] :
               w.op # "event" /\ Settle(Unreached(p, w))
    BY <1>8, <2>4
  <2>. QED BY <1>6, <1>7, <2>1, <2>2, <2>3, <2>4 DEF Runtime
<1>. QED BY <1>9 DEF Goal

(* Every step of the run keeps the stream sound.                           *)
LEMMA SoundInductive ==
  ASSUME Types, CallsAreNested, OpensFollow, StreamIsSound, Runtime
  PROVE  StreamIsSound'
<1>0. stream \in Seq(Entry) /\ Len(stream) \in Nat /\ phase = "running"
  BY RuntimeRuns DEF Types
<1>1. CASE Cut
  <2> DEFINE line == Line("truncated", None, 0, NoNote, LoudCalls)
  <2>1. stream' = Append(stream, line) /\ run.logging = "on" /\ run'.logging = "cut"
        /\ phase' = "running"
    BY <1>1 DEF Cut, Types
  <2>2. stream' \in Seq(Entry)
    BY RuntimeTypes DEF Types
  <2>3. /\ Len(stream') = Len(stream) + 1
        /\ \A k \in 1 .. Len(stream) : stream'[k] = stream[k]
        /\ stream'[Len(stream) + 1] = line
    BY <1>0, <2>1
  <2>4. line \in Entry
    BY <1>0, <2>2, <2>3
  <2>5. line.kind = "truncated" /\ line.by = None
    BY DEF Line
  <2> HIDE DEF line
  <2>6. line \in Named'
    BY <2>4, <2>5 DEF Named
  <2>7. ASSUME NEW k \in 1 .. Len(stream')
        PROVE  stream'[k] \in Named' /\ (stream'[k].kind = "truncated" => k = Len(stream'))
    <3>1. CASE k \in 1 .. Len(stream)
      <4>1. stream[k] \in Plain
        BY <2>1, <3>1 DEF StreamIsSound
      <4>. QED BY <2>3, <3>1, <4>1, NamedGrows DEF Plain
    <3>2. CASE k \notin 1 .. Len(stream)
      <4>1. k = Len(stream) + 1
        BY <1>0, <2>3, <3>2
      <4>. QED BY <2>3, <2>6, <4>1
    <3>. QED BY <3>1, <3>2
  <2>. QED BY <2>1, <2>7 DEF StreamIsSound
<1>2. CASE ~Cut
  <2>1. PICK lines \in Seq(Plain') :
           stream' = stream \o lines /\ (run.logging = "on" \/ lines = <<>>)
    BY <1>2, LinesOfCalls
  <2>2. run'.logging = run.logging
    BY <1>2, LoggingFacts
  <2>3. CASE run.logging = "on"
    <3>1. stream \in Seq(Plain)
      <4>1. \A k \in 1 .. Len(stream) : stream[k] \in Plain
        BY <2>3 DEF StreamIsSound
      <4>. QED BY <1>0, <4>1
    <3>2. stream \in Seq(Plain')
      <4>1. \A k \in 1 .. Len(stream) : stream[k] \in Plain'
        BY <1>0, <3>1, NamedGrows
      <4>. QED BY <1>0, <4>1
    <3>3. stream' \in Seq(Plain')
      BY <2>1, <3>2, ConcatFacts
    <3>4. \A k \in 1 .. Len(stream') : stream'[k] \in Plain'
      BY <3>3
    <3>5. \A k \in 1 .. Len(stream') : stream'[k] \in Named' /\ stream'[k].kind # "truncated"
      BY <3>4 DEF Plain
    <3>6. ASSUME phase' # "running" PROVE Open(Len(stream))' = <<>>
      <4>1. calls = <<>> /\ UNCHANGED <<calls, stream>>
        BY <1>0, <3>6 DEF Runtime, Invoke, Log, Return, Fail, Cut, Settle
      <4>2. Open(Len(stream)) = <<>>
        BY <1>0, <2>3, <4>1 DEF OpensFollow, LoudCalls
      <4>. QED BY <4>1, <4>2 DEF Open
    <3>. QED BY <2>2, <2>3, <3>4, <3>5, <3>6 DEF StreamIsSound
  <2>4. CASE run.logging # "on"
    <3>1. stream' = stream
      BY <1>0, <2>1, <2>4
    <3>2. \A k \in 1 .. Len(stream) : stream[k] \in Named'
      BY NamedGrows DEF StreamIsSound
    <3>. QED BY <2>2, <2>4, <3>1, <3>2 DEF StreamIsSound
  <2>. QED BY <2>3, <2>4
<1>. QED BY <1>1, <1>2

(* The parser leaves the stream alone.                                     *)
LEMMA StreamIsAlwaysSound == LSpec => []StreamIsSound
<1>1. LInit => StreamIsSound
  BY DEF LInit, StreamIsSound
<1>2. LInv /\ StreamIsSound /\ [LNext]_lvars => StreamIsSound'
  <2> SUFFICES ASSUME LInv, StreamIsSound, [LNext]_lvars PROVE StreamIsSound'
    OBVIOUS
  <2>1. CASE Runtime
    BY <2>1, SoundInductive DEF LInv, RuntimeInv
  <2>2. ASSUME UNCHANGED runtime, phase = "running" => phase' = "running"
        PROVE  StreamIsSound'
    <3>1. UNCHANGED <<list, stream, run>>
      BY <2>2 DEF runtime
    <3>2. Named' = Named
      BY <3>1 DEF Named
    <3>3. Plain' = Plain
      BY <3>2 DEF Plain
    <3>4. Open(Len(stream))' = Open(Len(stream))
      BY <3>1 DEF Open
    <3>. QED BY <2>2, <3>1, <3>2, <3>3, <3>4 DEF StreamIsSound
  <2>. QED BY <2>1, <2>2, ParserRuns DEF LNext, lvars
<1>. QED BY <1>1, <1>2, LInvHolds, PTL DEF LSpec

(* Where a call stands in the stream.                                      *)
Ends(k) == stream[k].kind \in {"success", "failed"}

Ascending(s) == \A n \in 1 .. Len(s) : \A m \in 1 .. n - 1 : s[m] < s[n]

Clean(k) == k \in 0 .. Len(stream) /\ \A j \in 1 .. k : stream[j].kind # "truncated"

(* What a line that is no cut does to the open calls.                      *)
LEMMA OpenTypes ==
  ASSUME Types, NEW k \in 0 .. Len(stream)
  PROVE  /\ Open(k) \in Seq(Nat) /\ Len(Open(k)) \in Nat
         /\ \A n \in 1 .. Len(Open(k)) : Open(k)[n] \in Nat
<1>3. SUFFICES Open(k) \in Seq(Nat)
  <2>1. ASSUME NEW s \in Seq(Nat)
        PROVE  Len(s) \in Nat /\ \A n \in 1 .. Len(s) : s[n] \in Nat
    OBVIOUS
  <2>. QED BY <2>1
<1>1. CASE k = 0
  BY <1>1 DEF Open
<1>2. CASE k # 0
  <2>1. k \in 1 .. Len(stream)
    BY <1>2 DEF Types
  <2>2. stream[k] \in Entry
    BY <2>1 DEF Types
  <2>. QED BY <1>2, <2>2 DEF Open, Entry
<1>. QED BY <1>1, <1>2

LEMMA OpenStep ==
  ASSUME Types, OpensFollow, NEW k \in 1 .. Len(stream), stream[k].kind # "truncated"
  PROVE  /\ k - 1 \in 0 .. Len(stream)
         /\ \/ /\ stream[k].kind = "invoke"
               /\ Len(Open(k)) = Len(Open(k - 1)) + 1
               /\ \A n \in 1 .. Len(Open(k - 1)) : Open(k)[n] = Open(k - 1)[n]
               /\ Open(k)[Len(Open(k - 1)) + 1] = stream[k].by
            \/ /\ Ends(k)
               /\ Len(Open(k - 1)) # 0
               /\ stream[k].by = Open(k - 1)[Len(Open(k - 1))]
               /\ Len(Open(k)) = Len(Open(k - 1)) - 1
               /\ \A n \in 1 .. Len(Open(k - 1)) - 1 : Open(k)[n] = Open(k - 1)[n]
            \/ /\ stream[k].kind = "note"
               /\ Len(Open(k - 1)) # 0
               /\ stream[k].by = Open(k - 1)[Len(Open(k - 1))]
               /\ Open(k) = Open(k - 1)
<1>1. /\ k \in Nat /\ k # 0 /\ k - 1 \in 0 .. Len(stream) /\ stream[k] \in Entry
  BY DEF Types
<1>2. PICK s \in Seq(Nat) : s = Open(k - 1)
  BY <1>1, OpenTypes
<1>3. Open(k) = stream[k].open /\ OpensAt(k) /\ stream[k].kind \in Kinds
  BY <1>1 DEF Open, OpensFollow, Entry
<1>4. CASE stream[k].kind = "invoke"
  <2>1. Open(k) = Append(s, stream[k].by)
    BY <1>2, <1>3, <1>4 DEF OpensAt
  <2>. QED BY <1>1, <1>2, <1>4, <2>1
<1>5. CASE stream[k].kind \in {"success", "failed"}
  <2>1. s # <<>> /\ stream[k].by = Last(s) /\ Open(k) = Front(s)
    BY <1>2, <1>3, <1>5 DEF OpensAt
  <2>. QED BY <1>1, <1>2, <1>5, <2>1, FrontFacts DEF Ends
<1>6. CASE stream[k].kind = "note"
  <2>1. s # <<>> /\ stream[k].by = Last(s) /\ Open(k) = s
    BY <1>2, <1>3, <1>6 DEF OpensAt
  <2>. QED BY <1>1, <1>2, <1>6, <2>1, FrontFacts
<1>. QED BY <1>3, <1>4, <1>5, <1>6 DEF Kinds

(* Up to the cut, the open calls ascend and each has had its invoke.       *)
OpenedInOrder(k) ==
  Ascending(Open(k)) /\ \A n \in 1 .. Len(Open(k)) : Invoked(Open(k)[n], k)

LEMMA OpenShapeStep ==
  ASSUME Types, OpensFollow, InvokesAreOrdered, NEW k \in 1 .. Len(stream),
         stream[k].kind # "truncated", OpenedInOrder(k - 1)
  PROVE  OpenedInOrder(k)
<1>1. k - 1 \in 0 .. Len(stream) /\ k \in Nat /\ Len(Open(k)) \in Nat /\ Len(Open(k - 1)) \in Nat
  BY OpenTypes DEF Types
<1>2. ASSUME NEW i, Invoked(i, k - 1) PROVE Invoked(i, k)
  BY <1>1, <1>2 DEF Invoked
<1>3. ASSUME NEW n \in 1 .. Len(Open(k - 1)) PROVE Invoked(Open(k - 1)[n], k)
  BY <1>2 DEF OpenedInOrder
<1>4. CASE stream[k].kind = "invoke"
  <2>1. /\ Len(Open(k)) = Len(Open(k - 1)) + 1
        /\ \A n \in 1 .. Len(Open(k - 1)) : Open(k)[n] = Open(k - 1)[n]
        /\ Open(k)[Len(Open(k - 1)) + 1] = stream[k].by
    BY <1>4, OpenStep DEF Ends
  <2>2. Invoked(stream[k].by, k)
    BY <1>1, <1>4 DEF Invoked
  <2>3. ASSUME NEW n \in 1 .. Len(Open(k - 1)) PROVE Open(k - 1)[n] < stream[k].by
    <3>1. Invoked(Open(k - 1)[n], k - 1)
      BY DEF OpenedInOrder
    <3>2. \A j \in 1 .. k - 1 : stream[j].kind = "invoke" => stream[j].by < stream[k].by
      BY <1>4 DEF InvokesAreOrdered, OrderedAt
    <3>. QED BY <3>1, <3>2 DEF Invoked
  <2>4. \A n \in 1 .. Len(Open(k)) : n \in 1 .. Len(Open(k - 1)) \/ n = Len(Open(k - 1)) + 1
    BY <1>1, <2>1
  <2>5. \A n \in 1 .. Len(Open(k)) : Invoked(Open(k)[n], k)
    BY <1>3, <2>1, <2>2, <2>4
  <2>6. ASSUME NEW n \in 1 .. Len(Open(k)), NEW m \in 1 .. n - 1
        PROVE  Open(k)[m] < Open(k)[n]
    <3>1. m \in 1 .. Len(Open(k - 1)) /\ Open(k)[m] = Open(k - 1)[m]
      BY <1>1, <2>1
    <3>2. CASE n \in 1 .. Len(Open(k - 1))
      BY <2>1, <3>1, <3>2 DEF OpenedInOrder, Ascending
    <3>3. CASE n = Len(Open(k - 1)) + 1
      BY <2>1, <2>3, <3>1, <3>3
    <3>. QED BY <2>4, <3>2, <3>3
  <2>. QED BY <2>5, <2>6 DEF OpenedInOrder, Ascending
<1>5. CASE Ends(k)
  <2>1. /\ Len(Open(k)) = Len(Open(k - 1)) - 1
        /\ \A n \in 1 .. Len(Open(k - 1)) - 1 : Open(k)[n] = Open(k - 1)[n]
    BY <1>5, OpenStep DEF Ends
  <2>2. \A n \in 1 .. Len(Open(k)) : n \in 1 .. Len(Open(k - 1)) /\ Open(k)[n] = Open(k - 1)[n]
    BY <1>1, <2>1
  <2>3. \A n \in 1 .. Len(Open(k)) : \A m \in 1 .. n - 1 : m \in 1 .. Len(Open(k))
    BY <1>1
  <2>. QED BY <1>3, <2>2, <2>3 DEF OpenedInOrder, Ascending
<1>6. CASE stream[k].kind = "note"
  <2>1. Open(k) = Open(k - 1)
    BY <1>6, OpenStep DEF Ends
  <2>. QED BY <1>3, <2>1 DEF OpenedInOrder
<1>. QED BY <1>4, <1>5, <1>6, OpenStep

LEMMA OpenShape ==
  ASSUME Types, OpensFollow, InvokesAreOrdered, NEW k, Clean(k)
  PROVE  OpenedInOrder(k)
<1> DEFINE Bad == {j \in 0 .. k : ~OpenedInOrder(j)}
<1>1. k \in Nat /\ Len(stream) \in Nat /\ k <= Len(stream)
  BY DEF Clean, Types
<1>2. SUFFICES ASSUME ~OpenedInOrder(k) PROVE FALSE
  OBVIOUS
<1>3. Bad \in SUBSET Nat /\ Bad # {}
  BY <1>1, <1>2
<1>4. PICK j \in Bad : \A l \in Bad : j <= l
  BY <1>3, LeastNatural
<1>5. j \in 0 .. k /\ ~OpenedInOrder(j)
  OBVIOUS
<1>6. j # 0
  <2>1. ASSUME j = 0 PROVE FALSE
    <3>1. Open(j) = <<>>
      BY <2>1 DEF Open
    <3>. QED BY <1>5, <3>1 DEF OpenedInOrder, Ascending
  <2>. QED BY <2>1
<1>7. j - 1 \in 0 .. k /\ j \in 1 .. Len(stream) /\ j - 1 < j /\ j \in 1 .. k
  BY <1>1, <1>5, <1>6
<1>8. OpenedInOrder(j - 1)
  BY <1>4, <1>7
<1>9. stream[j].kind # "truncated"
  BY <1>7 DEF Clean
<1>. QED BY <1>5, <1>7, <1>8, <1>9, OpenShapeStep

(* Only the last line may be a cut.                                        *)
LEMMA CleanFacts ==
  ASSUME Types, StreamIsSound, NEW k \in 1 .. Len(stream)
  PROVE  /\ Clean(k - 1)
         /\ stream[k].by # None => Clean(k) /\ stream[k].kind # "truncated"
<1>1. Len(stream) \in Nat
  BY DEF Types
<1>2. \A j \in 1 .. k - 1 : stream[j].kind # "truncated"
  BY <1>1 DEF StreamIsSound
<1>3. stream[k].by # None => stream[k].kind # "truncated"
  BY DEF StreamIsSound, Named
<1>4. k - 1 \in 0 .. Len(stream) /\ k \in 0 .. Len(stream)
      /\ \A j \in 1 .. k : j \in 1 .. k - 1 \/ j = k
  BY <1>1
<1>. QED BY <1>2, <1>3, <1>4 DEF Clean

(* An instruction has one invoke, and no line before it.                   *)
LEMMA InvokedOnce ==
  ASSUME Types, InvokesAreOrdered, NEW j \in 1 .. Len(stream), NEW k \in 1 .. Len(stream),
         stream[j].kind = "invoke", stream[k].kind = "invoke", stream[j].by = stream[k].by
  PROVE  j = k
<1>1. j \in Nat /\ k \in Nat /\ stream[j].by \in Nat /\ stream[k].by \in Nat
  <2>1. stream[j] \in Entry /\ stream[k] \in Entry
    BY DEF Types
  <2>. QED BY <2>1 DEF Types, Entry
<1>2. j < k => stream[j].by < stream[k].by
  BY <1>1 DEF InvokesAreOrdered, OrderedAt
<1>3. k < j => stream[k].by < stream[j].by
  BY <1>1 DEF InvokesAreOrdered, OrderedAt
<1>. QED BY <1>1, <1>2, <1>3

LEMMA FirstIsInvoke ==
  ASSUME Types, OpensFollow, InvokesAreOrdered, StreamIsSound,
         NEW k \in 1 .. Len(stream), stream[k].by # None
  PROVE  Invoked(stream[k].by, k)
<1>1. k \in Nat /\ Clean(k - 1) /\ stream[k].kind # "truncated"
  BY CleanFacts DEF Types
<1>2. CASE stream[k].kind = "invoke"
  BY <1>1, <1>2 DEF Invoked
<1>3. CASE stream[k].kind # "invoke"
  <2>1. Len(Open(k - 1)) # 0 /\ stream[k].by = Open(k - 1)[Len(Open(k - 1))]
        /\ k - 1 \in 0 .. Len(stream)
    BY <1>1, <1>3, OpenStep
  <2>2. Len(Open(k - 1)) \in 1 .. Len(Open(k - 1))
    BY <2>1, OpenTypes
  <2>3. Invoked(stream[k].by, k - 1)
    BY <1>1, <2>1, <2>2, OpenShape DEF OpenedInOrder
  <2>. QED BY <1>1, <2>3 DEF Invoked
<1>. QED BY <1>2, <1>3

(* A call that closed is open no more.                                     *)
LEMMA ClosedIsGone ==
  ASSUME Types, OpensFollow, InvokesAreOrdered, StreamIsSound,
         NEW t \in 1 .. Len(stream), Ends(t)
  PROVE  ~Among(stream[t].by, Open(t)) /\ stream[t].by # None /\ Invoked(stream[t].by, t - 1)
<1>1. Clean(t - 1) /\ stream[t].kind # "truncated" /\ stream[t].by # None
  BY CleanFacts DEF Ends, StreamIsSound, Named
<1>2. /\ Len(Open(t - 1)) # 0 /\ stream[t].by = Open(t - 1)[Len(Open(t - 1))]
      /\ Len(Open(t)) = Len(Open(t - 1)) - 1
      /\ \A n \in 1 .. Len(Open(t - 1)) - 1 : Open(t)[n] = Open(t - 1)[n]
      /\ t - 1 \in 0 .. Len(stream)
  BY <1>1, OpenStep DEF Ends
<1>3. Open(t - 1) \in Seq(Nat) /\ Len(Open(t - 1)) \in Nat
  BY <1>2, OpenTypes
<1>4. OpenedInOrder(t - 1) /\ Len(Open(t - 1)) \in 1 .. Len(Open(t - 1))
  BY <1>1, <1>2, <1>3, OpenShape
<1>5. ASSUME NEW n \in 1 .. Len(Open(t)) PROVE Open(t)[n] # stream[t].by
  <2>1. n \in 1 .. Len(Open(t - 1)) - 1
    BY <1>2
  <2>2. Open(t - 1)[n] < Open(t - 1)[Len(Open(t - 1))]
    BY <1>4, <2>1 DEF OpenedInOrder, Ascending
  <2>3. Open(t - 1)[n] \in Nat /\ stream[t].by \in Nat /\ Open(t)[n] = Open(t - 1)[n]
    <3>1. n \in 1 .. Len(Open(t - 1))
      BY <1>3, <2>1
    <3>2. \A m \in 1 .. Len(Open(t - 1)) : Open(t - 1)[m] \in Nat
      BY <1>2, OpenTypes
    <3>. QED BY <1>2, <1>4, <2>1, <3>1, <3>2
  <2>4. Open(t)[n] < stream[t].by
    BY <1>2, <2>2, <2>3
  <2>. QED BY <2>3, <2>4
<1>. QED BY <1>1, <1>2, <1>4, <1>5 DEF Among, OpenedInOrder

(* And writes no more.                                                     *)
LEMMA ClosedForGood ==
  ASSUME Types, OpensFollow, InvokesAreOrdered, StreamIsSound,
         NEW t \in 1 .. Len(stream), Ends(t), NEW l \in t + 1 .. Len(stream)
  PROVE  stream[l].by # stream[t].by
<1> DEFINE i == stream[t].by
           Bad == {m \in t .. l - 1 : Among(i, Open(m))}
<1>1. t \in Nat /\ l \in Nat /\ t < l /\ l <= Len(stream) /\ Len(stream) \in Nat /\ t >= 1
      /\ l \in 1 .. Len(stream)
  BY DEF Types
<1>2. SUFFICES ASSUME stream[l].by = i PROVE FALSE
  OBVIOUS
<1>3. i # None /\ ~Among(i, Open(t)) /\ Invoked(i, t - 1)
  BY ClosedIsGone
<1>4. PICK j \in 1 .. t - 1 : stream[j].kind = "invoke" /\ stream[j].by = i
  BY <1>3 DEF Invoked
<1>5. ASSUME NEW m \in t .. Len(stream), stream[m].kind = "invoke" PROVE stream[m].by # i
  BY <1>1, <1>4, <1>5, InvokedOnce
<1> HIDE DEF i
<1>6. Bad = {}
  <2> SUFFICES ASSUME Bad # {} PROVE FALSE
    OBVIOUS
  <2>1. Bad \in SUBSET Nat
    BY <1>1
  <2>2. PICK m \in Bad : \A n \in Bad : m <= n
    BY <2>1, LeastNatural
  <2>3. m \in t .. l - 1 /\ Among(i, Open(m))
    BY <2>2
  <2>4. m # t /\ m - 1 \in t .. l - 1 /\ m \in 1 .. Len(stream) /\ m \in t .. Len(stream)
    BY <1>1, <1>3, <2>3
  <2>5. m - 1 < m
    BY <2>4
  <2>6. ~Among(i, Open(m - 1))
    BY <2>2, <2>4, <2>5
  <2>7. stream[m].kind # "truncated"
    BY <1>1, <2>3 DEF StreamIsSound
  <2>8. Len(Open(m)) \in Nat /\ Len(Open(m - 1)) \in Nat
    BY <1>1, <2>4, OpenTypes
  <2>9. stream[m].by # i \/ stream[m].kind # "invoke"
    BY <1>5, <2>4
  <2>10. PICK n \in 1 .. Len(Open(m)) : Open(m)[n] = i
    BY <2>3 DEF Among
  <2>11. n \in 1 .. Len(Open(m - 1)) => Open(m - 1)[n] # i
    BY <2>6 DEF Among
  <2>12. \/ n \in 1 .. Len(Open(m - 1)) /\ Open(m)[n] = Open(m - 1)[n]
         \/ stream[m].kind = "invoke" /\ Open(m)[n] = stream[m].by
    <3>1. \/ /\ stream[m].kind = "invoke"
             /\ Len(Open(m)) = Len(Open(m - 1)) + 1
             /\ \A x \in 1 .. Len(Open(m - 1)) : Open(m)[x] = Open(m - 1)[x]
             /\ Open(m)[Len(Open(m - 1)) + 1] = stream[m].by
          \/ /\ Len(Open(m)) = Len(Open(m - 1)) - 1
             /\ \A x \in 1 .. Len(Open(m - 1)) - 1 : Open(m)[x] = Open(m - 1)[x]
          \/ Open(m) = Open(m - 1)
      BY <2>4, <2>7, OpenStep
    <3>2. CASE /\ stream[m].kind = "invoke"
               /\ Len(Open(m)) = Len(Open(m - 1)) + 1
               /\ \A x \in 1 .. Len(Open(m - 1)) : Open(m)[x] = Open(m - 1)[x]
               /\ Open(m)[Len(Open(m - 1)) + 1] = stream[m].by
      <4>1. n \in 1 .. Len(Open(m - 1)) \/ n = Len(Open(m - 1)) + 1
        BY <2>8, <3>2
      <4>. QED BY <3>2, <4>1
    <3>3. CASE /\ Len(Open(m)) = Len(Open(m - 1)) - 1
               /\ \A x \in 1 .. Len(Open(m - 1)) - 1 : Open(m)[x] = Open(m - 1)[x]
      <4>1. n \in 1 .. Len(Open(m - 1)) - 1 /\ n \in 1 .. Len(Open(m - 1))
        BY <2>8, <3>3
      <4>. QED BY <3>3, <4>1
    <3>4. CASE Open(m) = Open(m - 1)
      BY <3>4
    <3>. QED BY <3>1, <3>2, <3>3, <3>4
  <2>. QED BY <2>9, <2>10, <2>11, <2>12
<1>7. ~Among(i, Open(l - 1))
  BY <1>1, <1>6
<1>8. stream[l].kind # "truncated"
  BY <1>1, <1>2, <1>3, CleanFacts
<1>9. stream[l].kind # "invoke"
  BY <1>1, <1>2, <1>5
<1>10. Len(Open(l - 1)) # 0 /\ stream[l].by = Open(l - 1)[Len(Open(l - 1))]
       /\ l - 1 \in 0 .. Len(stream)
  BY <1>1, <1>8, <1>9, OpenStep
<1>11. Len(Open(l - 1)) \in 1 .. Len(Open(l - 1))
  BY <1>10, OpenTypes
<1>. QED BY <1>2, <1>7, <1>10, <1>11 DEF Among

(* A stream that was recorded to its end closes every call it opens.       *)
LEMMA EndsClosed ==
  ASSUME Types, OpensFollow, StreamIsSound, phase # "running", run.logging = "on",
         NEW k \in 1 .. Len(stream)
  PROVE  \E l \in k .. Len(stream) : Ends(l) /\ stream[l].by = stream[k].by
<1> DEFINE i == stream[k].by
           Bad == {m \in k .. Len(stream) : ~Among(i, Open(m))}
<1>1. k \in Nat /\ Len(stream) \in Nat /\ k >= 1 /\ k <= Len(stream)
  BY DEF Types
<1>2. SUFFICES ASSUME \A l \in k .. Len(stream) : Ends(l) => stream[l].by # i PROVE FALSE
  OBVIOUS
<1>3. \A m \in 1 .. Len(stream) : stream[m].kind # "truncated"
  BY DEF StreamIsSound, Plain
<1>4. \A m \in 0 .. Len(stream) : Len(Open(m)) \in Nat
  BY OpenTypes
<1>5. ~Ends(k) /\ k - 1 \in 0 .. Len(stream) /\ k \in 0 .. Len(stream)
  BY <1>1, <1>2
<1>6. Among(i, Open(k))
  <2>1. Len(Open(k)) \in Nat /\ Len(Open(k - 1)) \in Nat
    BY <1>4, <1>5
  <2>2. \/ /\ Len(Open(k)) = Len(Open(k - 1)) + 1
           /\ Open(k)[Len(Open(k - 1)) + 1] = stream[k].by
        \/ /\ Len(Open(k - 1)) # 0
           /\ stream[k].by = Open(k - 1)[Len(Open(k - 1))]
           /\ Open(k) = Open(k - 1)
    BY <1>3, <1>5, OpenStep
  <2>3. \/ Len(Open(k - 1)) + 1 \in 1 .. Len(Open(k)) /\ Open(k)[Len(Open(k - 1)) + 1] = i
        \/ Len(Open(k - 1)) \in 1 .. Len(Open(k)) /\ Open(k)[Len(Open(k - 1))] = i
    BY <2>1, <2>2
  <2>. QED BY <2>3 DEF Among
<1>7. Len(stream) \in Bad
  <2>1. Open(Len(stream)) = <<>>
    BY DEF StreamIsSound
  <2>2. Len(Open(Len(stream))) = 0
    BY <2>1
  <2>. QED BY <1>1, <2>2 DEF Among
<1>8. Bad \in SUBSET Nat
  BY <1>1
<1>9. PICK m \in Bad : \A n \in Bad : m <= n
  BY <1>7, <1>8, LeastNatural
<1>10. m \in k .. Len(stream) /\ ~Among(i, Open(m))
  BY <1>9
<1> HIDE DEF i
<1>11. m # k /\ m - 1 \in k .. Len(stream) /\ m \in 1 .. Len(stream) /\ m - 1 \in 0 .. Len(stream)
       /\ m \in 0 .. Len(stream) /\ m - 1 < m
  BY <1>1, <1>6, <1>10
<1>12. Among(i, Open(m - 1))
  BY <1>9, <1>11
<1>13. PICK n \in 1 .. Len(Open(m - 1)) : Open(m - 1)[n] = i
  BY <1>12 DEF Among
<1>14. n \in 1 .. Len(Open(m)) => Open(m)[n] # i
  BY <1>10 DEF Among
<1>15. Ends(m) => stream[m].by # i
  BY <1>2, <1>10
<1>16. stream[m].kind # "truncated" /\ Len(Open(m)) \in Nat /\ Len(Open(m - 1)) \in Nat
  BY <1>3, <1>4, <1>11
<1>. QED BY <1>11, <1>13, <1>14, <1>15, <1>16, OpenStep

-----------------------------------------------------------------------------
(* What the walk hands out.                                                *)

(* What s holds is the members of S up to r, in order.                     *)
Lists(s, S, r) ==
  /\ \A n \in 1 .. Len(s) : s[n] \in 1 .. r /\ s[n] \in S
  /\ \A k \in 1 .. r : k \in S => Among(k, s)
  /\ Ascending(s)

(* The slice of i is the lines of i up to r.                               *)
UpTo(i, r) == Lists(parsed[i].logs, OwnLines(i), r)

Slices ==
  \A i \in 1 .. Len(parsed) :
     /\ phase \in {"running", "parsing"} => parsed[i].logs = <<>>
     /\ phase = "attaching" => UpTo(i, at)
     /\ phase = "attached" =>
           Among(Marker, parsed[i].logs) \/ \E r \in 0 .. Len(stream) : UpTo(i, r)
     /\ outcome = "complete" => UpTo(i, Len(stream))

(* A line ends the walk, or goes to the slice of the call it is of.        *)
LEMMA ReadStep ==
  ASSUME LInv, AttachLine, NEW n \in Nat, n = at + 1
  PROVE  /\ n \in 1 .. Len(stream)
         /\ \/ /\ Effect(stream[n]) = "cut" /\ phase' = "attached" /\ outcome' = "truncated"
               /\ \E to : parsed' = Attached(to, Marker)
            \/ /\ stream[n].kind = "invoke" /\ AttachOpen(stream[n])
               /\ phase' = "attached" /\ outcome' \in {"overrun", "desynced"}
               /\ parsed' = parsed
            \/ /\ UNCHANGED <<phase, outcome>>
               /\ \E to : (\A i : i \in to <=> i = stream[n].by) /\ parsed' = Attached(to, n)
<1>0. /\ at \in Nat /\ Len(stream) \in Nat /\ phase = "attaching" /\ at < Len(stream)
      /\ n \in 1 .. Len(stream) /\ n - 1 = at /\ frames = Open(at) /\ Len(parsed) \in Nat
      /\ cursor \in 0 .. Len(parsed) /\ Types /\ OpensFollow /\ frames \in Seq(Nat)
  BY DEF LInv, Types, AttachLine, FramesAreOpenCalls, RuntimeInv
<1>1. stream[n] \in Entry
  BY <1>0 DEF Types
<1>2. /\ Effect(stream[n]) = "open" => stream[n].kind = "invoke"
      /\ Effect(stream[n]) = "close" => stream[n].kind \in {"success", "failed"}
      /\ Effect(stream[n]) = "body" => stream[n].kind = "note"
  <2> DEFINE line == stream[n]
  <2>1. line.kind \in Kinds
    BY <1>1 DEF Entry
  <2> HIDE DEF line
  <2>2. /\ Effect(line) = "open" => line.kind = "invoke"
        /\ Effect(line) = "close" => line.kind \in {"success", "failed"}
        /\ Effect(line) = "body" => line.kind = "note"
    BY <2>1, Zenon DEF Effect, Kinds
  <2>. QED BY <2>2 DEF line
<1>3. stream[n].kind \in {"success", "failed", "note"} =>
         frames # <<>> /\ stream[n].by = Last(frames)
  BY <1>0 DEF OpensFollow, OpensAt
<1>4. \/ Effect(stream[n]) = "cut" /\ AttachCut
      \/ Effect(stream[n]) = "open" /\ AttachOpen(stream[n])
      \/ Effect(stream[n]) = "close" /\ AttachClose
      \/ Effect(stream[n]) = "body" /\ AttachBody
  BY DEF AttachLine
<1>5. CASE Effect(stream[n]) = "cut" /\ AttachCut
  BY <1>0, <1>5 DEF AttachCut, Exit
<1>6. CASE Effect(stream[n]) = "open" /\ AttachOpen(stream[n])
  <2>1. CASE UNCHANGED <<parsed, frames, cursor>> /\ (Exit("overrun") \/ Exit("desynced"))
    BY <1>0, <1>2, <1>6, <2>1 DEF Exit
  <2>2. CASE /\ cursor < Len(parsed) /\ parsed[cursor + 1].program = stream[n].program
             /\ parsed' = Attached({cursor + 1}, at + 1)
             /\ UNCHANGED <<phase, outcome>>
    <3>1. stream[at + 1].by = cursor + 1
      BY <1>0, <1>2, <1>6, <2>2, InvokeIsNext
    <3>2. {cursor + 1} = {stream[n].by} /\ parsed' = Attached({cursor + 1}, n)
      BY <1>0, <2>2, <3>1
    <3>3. PICK to : to = {stream[n].by}
      OBVIOUS
    <3>4. parsed' = Attached(to, n)
      BY <3>2, <3>3
    <3>. QED BY <1>0, <2>2, <3>3, <3>4
  <2>3. PICK line : line = stream[n]
    OBVIOUS
  <2>4. AttachOpen(line)
    BY <1>6, <2>3
  <2>5. \/ UNCHANGED <<parsed, frames, cursor>> /\ (Exit("overrun") \/ Exit("desynced"))
        \/ /\ cursor < Len(parsed) /\ parsed[cursor + 1].program = line.program
           /\ parsed' = Attached({cursor + 1}, at + 1)
           /\ UNCHANGED <<phase, outcome>>
    BY <1>0, <2>4 DEF AttachOpen
  <2>. QED BY <2>1, <2>2, <2>3, <2>5
<1>7. CASE Effect(stream[n]) = "close" /\ AttachClose
  <2>1. /\ parsed' = Attached({Last(frames)}, at + 1) /\ UNCHANGED <<phase, outcome>>
        /\ stream[n].by = Last(frames)
    BY <1>2, <1>3, <1>7 DEF AttachClose
  <2>. QED BY <1>0, <2>1
<1>8. CASE Effect(stream[n]) = "body" /\ AttachBody
  <2>1. /\ parsed' = Attached({Last(frames)}, at + 1) /\ UNCHANGED <<phase, outcome>>
        /\ stream[n].by = Last(frames)
    BY <1>2, <1>3, <1>8 DEF AttachBody
  <2>. QED BY <1>0, <2>1
<1>. QED BY <1>4, <1>5, <1>6, <1>7, <1>8

LEMMA AppendNext ==
  ASSUME NEW S, NEW n \in Nat \ {0}, n \in S, NEW s \in Seq(Nat), Lists(s, S, n - 1)
  PROVE  Lists(Append(s, n), S, n)
<1>1. PICK t : t = Append(s, n)
  OBVIOUS
<1>2. /\ Len(t) = Len(s) + 1 /\ Len(s) \in Nat /\ t[Len(s) + 1] = n
      /\ \A m \in 1 .. Len(s) : t[m] = s[m]
  BY <1>1
<1>3. \A m \in 1 .. Len(t) : m \in 1 .. Len(s) \/ m = Len(s) + 1
  BY <1>2
<1>4. \A m \in 1 .. Len(s) : s[m] \in 1 .. n - 1 /\ s[m] \in S
  BY DEF Lists
<1>5. \A m \in 1 .. Len(t) : t[m] \in 1 .. n /\ t[m] \in S
  <2>1. 1 .. n - 1 \subseteq 1 .. n /\ n \in 1 .. n
    OBVIOUS
  <2>. QED BY <1>2, <1>3, <1>4, <2>1
<1>6. ASSUME NEW k \in 1 .. n, k \in S PROVE Among(k, t)
  <2>1. CASE k = n
    BY <1>2, <2>1 DEF Among
  <2>2. CASE k # n
    <3>1. k \in 1 .. n - 1
      BY <2>2
    <3>2. Among(k, s)
      BY <1>6, <3>1 DEF Lists
    <3>. QED BY <1>2, <3>2 DEF Among
  <2>. QED BY <2>1, <2>2
<1>7. ASSUME NEW m \in 1 .. Len(t), NEW j \in 1 .. m - 1 PROVE t[j] < t[m]
  <2>1. j \in 1 .. Len(s) /\ t[j] = s[j]
    BY <1>2
  <2>2. CASE m \in 1 .. Len(s)
    <3>1. s[j] < s[m]
      BY <2>2 DEF Lists, Ascending
    <3>. QED BY <1>2, <2>1, <2>2, <3>1
  <2>3. CASE m = Len(s) + 1
    <3>1. s[j] \in 1 .. n - 1
      BY <1>4, <2>1
    <3>. QED BY <1>2, <2>1, <2>3, <3>1
  <2>. QED BY <1>3, <2>2, <2>3
<1>8. Ascending(t)
  BY <1>7 DEF Ascending
<1>. QED BY <1>1, <1>5, <1>6, <1>8 DEF Lists

LEMMA SliceGrows ==
  ASSUME Types, UNCHANGED stream, NEW n \in 1 .. Len(stream),
         NEW to, \A j : j \in to <=> j = stream[n].by,
         parsed' = Attached(to, n), NEW i \in 1 .. Len(parsed), UpTo(i, n - 1)
  PROVE  UpTo(i, n)'
<1>1. n \in Nat \ {0} /\ parsed \in Seq(Parsed) /\ parsed[i] \in Parsed
      /\ DOMAIN stream = 1 .. Len(stream)
  BY DEF Types
<1>2. parsed'[i].logs = IF i \in to THEN Append(parsed[i].logs, n) ELSE parsed[i].logs
  BY <1>1, AttachedFacts
<1>3. PICK s \in Seq(Nat) : s = parsed[i].logs
  BY <1>1 DEF Parsed
<1>4. Lists(s, OwnLines(i), n - 1) /\ OwnLines(i)' = OwnLines(i)
  BY <1>3 DEF UpTo, OwnLines
<1>5. n \in OwnLines(i) <=> stream[n].by = i
  BY <1>1 DEF OwnLines
<1>6. CASE stream[n].by = i
  <2>1. Lists(Append(s, n), OwnLines(i), n)
    BY <1>1, <1>4, <1>5, <1>6, AppendNext
  <2>2. parsed'[i].logs = Append(s, n)
    BY <1>2, <1>3, <1>6
  <2>. QED BY <1>4, <2>1, <2>2 DEF UpTo
<1>7. CASE stream[n].by # i
  <2>1. parsed'[i].logs = s
    BY <1>2, <1>3, <1>7
  <2>2. 1 .. n - 1 \subseteq 1 .. n /\ \A k \in 1 .. n : k \in 1 .. n - 1 \/ k = n
    BY <1>1
  <2>3. n \notin OwnLines(i)
    BY <1>5, <1>7
  <2>4. Lists(s, OwnLines(i), n)
    BY <1>4, <2>2, <2>3 DEF Lists
  <2>. QED BY <1>4, <2>1, <2>4 DEF UpTo
<1>. QED BY <1>6, <1>7

LEMMA SliceStays ==
  ASSUME UNCHANGED stream, NEW i, NEW r, parsed'[i].logs = parsed[i].logs, UpTo(i, r)
  PROVE  UpTo(i, r)'
<1>1. OwnLines(i)' = OwnLines(i)
  BY DEF OwnLines
<1>. QED BY <1>1 DEF UpTo

(* Every step of the walk hands out the line it reads.                     *)
LEMMA SlicesInductive ==
  ASSUME LInv, LInv', Slices, TypeOK, TypeOK', [LNext]_lvars
  PROVE  Slices'
<1>0. Types /\ at \in Nat /\ Len(stream) \in Nat /\ Len(parsed) \in Nat /\ parsed \in Seq(Parsed)
      /\ FramesAreOpenCalls
  <2>1. Types /\ FramesAreOpenCalls
    BY DEF LInv
  <2>2. at \in Nat /\ stream \in Seq(Entry) /\ parsed \in Seq(Parsed)
    BY <2>1 DEF Types
  <2>. QED BY <2>1, <2>2
<1>1. CASE Runtime
  <2>1. phase' \in {"running", "parsing"} /\ parsed' = parsed /\ outcome' = outcome
        /\ phase = "running" /\ outcome' = "none"
    BY <1>1, RuntimeRuns DEF TypeOK, parser
  <2>. QED BY <2>1 DEF Slices
<1>2. CASE ParseInstruction
  <2>1. phase = "parsing" /\ phase' = "parsing" /\ outcome' = "none"
    BY <1>2 DEF ParseInstruction, TypeOK
  <2>2. ParsedFaithfully /\ StackIsPath
    BY DEF LInv
  <2>3. PICK idx \in Nat : idx = Len(parsed) + 1
    BY <1>0
  <2>4. /\ Len(parsed') = idx
        /\ \A i \in 1 .. Len(parsed) : parsed'[i] = parsed[i]
        /\ parsed'[idx].logs = <<>>
    BY <1>0, <1>2, <2>2, <2>3, ParseFacts
  <2>5. \A i \in 1 .. Len(parsed') : i \in 1 .. Len(parsed) \/ i = idx
    BY <1>0, <2>3, <2>4
  <2>6. \A i \in 1 .. Len(parsed') : parsed'[i].logs = <<>>
    BY <2>1, <2>4, <2>5 DEF Slices
  <2>. QED BY <2>1, <2>6 DEF Slices
<1>3. CASE StartAttaching
  <2>1. /\ phase = "parsing" /\ phase' = "attaching" /\ outcome' = "none" /\ UNCHANGED parsed
        /\ at' = 0
    BY <1>0, <1>3 DEF StartAttaching, TypeOK, parser, FramesAreOpenCalls
  <2>2. ASSUME NEW i \in 1 .. Len(parsed) PROVE UpTo(i, at)'
    <3>1. parsed'[i].logs = <<>>
      BY <2>1 DEF Slices
    <3>. QED BY <2>1, <3>1 DEF UpTo, Lists, Ascending
  <2>. QED BY <2>1, <2>2 DEF Slices
<1>4. CASE AttachLine
  <2>1. /\ phase = "attaching" /\ at' = at + 1 /\ at < Len(stream) /\ UNCHANGED stream
        /\ outcome = "none"
    BY <1>4 DEF AttachLine, runtime, TypeOK
  <2>2. PICK n \in Nat : n = at + 1
    BY <1>0
  <2>3. n \in 1 .. Len(stream) /\ n - 1 = at /\ at \in 0 .. Len(stream')
    BY <1>0, <2>1, <2>2
  <2>4. \A i \in 1 .. Len(parsed) : UpTo(i, at)
    BY <2>1 DEF Slices
  <2>5. ASSUME NEW to, \A j : j \in to <=> j = stream[n].by, parsed' = Attached(to, n), UNCHANGED <<phase, outcome>> PROVE Slices'
    <3>1. Len(parsed') = Len(parsed)
      BY <1>0, <2>5, AttachedFacts
    <3>2. ASSUME NEW i \in 1 .. Len(parsed) PROVE UpTo(i, at)'
      <4>1. UpTo(i, n - 1)
        BY <2>3, <2>4
      <4>2. UpTo(i, n)'
        BY <1>0, <2>1, <2>3, <2>5, <4>1, SliceGrows
      <4>. QED BY <2>1, <2>2, <4>2
    <3>. QED BY <2>1, <2>5, <3>1, <3>2 DEF Slices
  <2>6. ASSUME parsed' = parsed, phase' = "attached", outcome' # "complete" PROVE Slices'
    <3>1. ASSUME NEW i \in 1 .. Len(parsed) PROVE \E r \in 0 .. Len(stream') : UpTo(i, r)'
      <4>1. UpTo(i, at)
        BY <2>4
      <4>2. PICK r \in 0 .. Len(stream') : r = at
        BY <2>3
      <4>3. UpTo(i, r)
        BY <4>1, <4>2
      <4>4. UNCHANGED <<stream, parsed>>
        BY <2>1, <2>6
      <4>. QED BY <4>3, <4>4, SliceStays
    <3>. QED BY <2>6, <3>1 DEF Slices
  <2>7. ASSUME NEW to, parsed' = Attached(to, Marker), phase' = "attached", outcome' = "truncated"
        PROVE  Slices'
    <3>1. /\ Len(parsed') = Len(parsed) /\ Marker \in Nat
          /\ \A i \in 1 .. Len(parsed) :
                parsed'[i].logs = IF i \in to THEN Append(parsed[i].logs, Marker)
                                  ELSE parsed[i].logs
      BY <1>0, <2>7, AttachedFacts DEF Marker
    <3>2. ASSUME NEW i \in 1 .. Len(parsed)
          PROVE  Among(Marker, parsed'[i].logs) \/ \E r \in 0 .. Len(stream') : UpTo(i, r)'
      <4>1. parsed[i] \in Parsed
        BY <1>0
      <4>2. PICK s \in Seq(Nat) : s = parsed[i].logs
        BY <4>1 DEF Parsed
      <4>3. CASE i \in to
        <5>1. PICK t : t = Append(s, Marker)
          OBVIOUS
        <5>2. Len(s) + 1 \in 1 .. Len(t) /\ t[Len(s) + 1] = Marker
          BY <3>1, <5>1
        <5>3. parsed'[i].logs = t
          BY <3>1, <4>2, <4>3, <5>1
        <5>. QED BY <5>2, <5>3 DEF Among
      <4>4. CASE i \notin to
        <5>1. parsed'[i].logs = parsed[i].logs
          BY <3>1, <4>4
        <5>2. UpTo(i, at)
          BY <2>4
        <5>3. PICK r \in 0 .. Len(stream') : r = at
          BY <2>3
        <5>4. UpTo(i, r)
          BY <5>2, <5>3
        <5>5. UpTo(i, r)'
          BY <2>1, <5>1, <5>4, SliceStays
        <5>. QED BY <5>5
      <4>. QED BY <4>3, <4>4
    <3>. QED BY <2>7, <3>1, <3>2 DEF Slices, Among
  <2>. QED BY <1>4, <2>2, <2>5, <2>6, <2>7, ReadStep
<1>5. CASE AttachEnd
  <2>1. /\ phase = "attaching" /\ at = Len(stream) /\ UNCHANGED <<stream, parsed>>
        /\ phase' = "attached"
    BY <1>5 DEF AttachEnd, Exit, runtime
  <2>2. ASSUME NEW i \in 1 .. Len(parsed') PROVE UpTo(i, Len(stream))'
    <3>1. UpTo(i, Len(stream))
      BY <2>1 DEF Slices
    <3>2. PICK r : r = Len(stream)
      OBVIOUS
    <3>3. UpTo(i, r)'
      BY <2>1, <3>1, <3>2, SliceStays
    <3>. QED BY <2>1, <3>2, <3>3
  <2>3. Len(stream') \in 0 .. Len(stream')
    BY <1>0, <2>1
  <2>. QED BY <2>1, <2>2, <2>3 DEF Slices
<1>6. CASE UNCHANGED lvars
  <2>1. UNCHANGED <<stream, parsed, phase, at, outcome>>
    BY <1>6 DEF lvars, runtime, parser
  <2>. QED BY <2>1 DEF Slices, UpTo, OwnLines
<1>. QED BY <1>1, <1>2, <1>3, <1>4, <1>5, <1>6 DEF LNext, Parser

LEMMA SlicesHold == LSpec => []Slices
<1>1. LInit => Slices
  BY DEF LInit, Slices
<1>2. LInv /\ LInv' /\ Slices /\ TypeOK /\ TypeOK' /\ [LNext]_lvars => Slices'
  BY SlicesInductive
<1>. QED BY <1>1, <1>2, LInvHolds, TypeCorrect, PTL DEF LSpec

-----------------------------------------------------------------------------
(* What the audit finds.                                                   *)

LEMMA AuditOkFacts ==
  ASSUME NEW i, Audit(i) = "Ok"
  PROVE  /\ Slice(i) # <<>>
         /\ \A k \in DOMAIN Slice(i) : Slice(i)[k] # Marker
         /\ stream[Last(Slice(i))].kind \in {"success", "failed"}
BY DEF Audit

LEMMA AuditIsOk ==
  ASSUME NEW i, Slice(i) # <<>>,
         \A k \in DOMAIN Slice(i) : Slice(i)[k] # Marker /\ Effect(stream[Slice(i)[k]]) # "cut",
         stream[Slice(i)[1]].kind = "invoke",
         stream[Slice(i)[1]].program = parsed[i].program,
         stream[Slice(i)[1]].depth = parsed[i].height,
         \A k \in 2 .. Len(Slice(i)) : stream[Slice(i)[k]].kind # "invoke",
         stream[Last(Slice(i))].kind \in {"success", "failed"},
         stream[Last(Slice(i))].program = parsed[i].program
  PROVE  Audit(i) = "Ok"
BY DEF Audit

LEMMA LastFacts ==
  ASSUME NEW s \in Seq(Nat), s # <<>>
  PROVE  /\ Last(s) = s[Len(s)]
         /\ Len(s) \in Nat /\ Len(s) \in 1 .. Len(s) /\ 1 \in 1 .. Len(s)
         /\ DOMAIN s = 1 .. Len(s)
BY DEF Last

LEMMA TopIsLast ==
  ASSUME NEW s \in Seq(Nat), Ascending(s), NEW n \in 1 .. Len(s)
  PROVE  s[n] <= s[Len(s)]
<1>1. PICK N \in Nat : N = Len(s)
  OBVIOUS
<1>2. s[n] \in Nat /\ N \in 1 .. N
  BY <1>1
<1>3. CASE n = N
  BY <1>1, <1>2, <1>3
<1>4. CASE n # N
  <2>1. n \in 1 .. N - 1 /\ s[N] \in Nat
    BY <1>1, <1>2, <1>4
  <2>2. s[n] < s[N]
    BY <1>1, <1>2, <2>1 DEF Ascending
  <2>. QED BY <1>1, <1>2, <2>1, <2>2
<1>. QED BY <1>3, <1>4

(* A slice that ends in a terminator is all there ever was of the call.    *)
LEMMA EndedIsWhole ==
  ASSUME LInv, StreamIsSound, CutInv, NEW i \in 1 .. Len(parsed), NEW r \in 0 .. Len(stream),
         UpTo(i, r), Slice(i) # <<>>, Ends(Last(Slice(i)))
  PROVE  i \notin lost /\ IsWhole(i)
<1>1. Types /\ OpensFollow /\ InvokesAreOrdered /\ stream \in Seq(Entry) /\ parsed[i] \in Parsed
      /\ r \in Nat /\ Len(stream) \in Nat
  BY DEF LInv, RuntimeInv, Types
<1>2. PICK s \in Seq(Nat) : s = Slice(i)
  BY <1>1 DEF Parsed, Slice
<1>3. PICK t : t = Last(s)
  OBVIOUS
<1>4. Lists(s, OwnLines(i), r) /\ s # <<>>
  BY <1>2 DEF UpTo, Slice
<1>a. t = s[Len(s)] /\ Len(s) \in 1 .. Len(s) /\ DOMAIN s = 1 .. Len(s)
  BY <1>3, <1>4, LastFacts
<1>5. \A n \in 1 .. Len(s) : s[n] \in 1 .. r /\ s[n] \in OwnLines(i)
  BY <1>4 DEF Lists
<1>6. t \in 1 .. r /\ t \in OwnLines(i)
  BY <1>5, <1>a
<1>7. t \in 1 .. Len(stream) /\ stream[t].by = i /\ Ends(t) /\ t \in Nat
  BY <1>1, <1>2, <1>3, <1>6 DEF OwnLines
<1>8. ASSUME NEW k \in OwnLines(i) PROVE k \in 1 .. r
  <2>1. k \in 1 .. Len(stream) /\ stream[k].by = i
    BY <1>1 DEF OwnLines
  <2>2. k \notin t + 1 .. Len(stream)
    BY <1>1, <1>7, <2>1, ClosedForGood
  <2>. QED BY <1>1, <1>6, <1>7, <2>1, <2>2
<1>9. ToSet(s) = OwnLines(i)
  <2>1. DOMAIN s = 1 .. Len(s)
    BY <1>a
  <2>2. \A k \in OwnLines(i) : Among(k, s)
    BY <1>4, <1>8 DEF Lists
  <2>. QED BY <1>5, <2>1, <2>2 DEF ToSet, Among
<1>10. IsWhole(i)
  <2>1. ASSUME NEW m \in DOMAIN s, NEW n \in DOMAIN s, m < n PROVE s[m] < s[n]
    <3>1. m \in 1 .. n - 1 /\ n \in 1 .. Len(s)
      <4>1. m \in 1 .. Len(s) /\ n \in 1 .. Len(s)
        BY <1>a
      <4>. QED BY <2>1, <4>1
    <3>. QED BY <1>4, <3>1 DEF Lists, Ascending
  <2>. QED BY <1>2, <1>9, <2>1 DEF IsWhole
<1>11. i \notin lost
  <2> SUFFICES ASSUME i \in lost PROVE FALSE
    OBVIOUS
  <2>1. run.logging \in {"on", "cut", "suppressed"}
    BY <1>1 DEF Types
  <2>2. run.logging # "on"
    BY DEF CutInv, LossesAreCutOff
  <2>3. run.logging # "suppressed"
    <3>1. ASSUME stream = <<>> PROVE FALSE
      BY <1>7, <3>1
    <3>. QED BY <3>1 DEF StreamIsSound
  <2>4. CutOff(i)
    BY <2>1, <2>2, <2>3 DEF CutInv, LossesAreCutOff
  <2>5. ~Among(i, Open(t)) /\ Invoked(i, t - 1)
    BY <1>1, <1>7, ClosedIsGone
  <2>6. PICK j \in 1 .. t - 1 : stream[j].kind = "invoke" /\ stream[j].by = i
    BY <2>5 DEF Invoked
  <2>7. j \in 1 .. Len(stream) /\ i \in Nat
    BY <1>7
  <2>8. ~\A l \in 1 .. Len(stream) : stream[l].kind = "invoke" => stream[l].by < i
    BY <2>6, <2>7
  <2>9. Among(i, Open(Len(stream)))
    BY <2>4, <2>8 DEF CutOff
  <2>10. PICK n \in 1 .. Len(Open(Len(stream))) : Open(Len(stream))[n] = i
    BY <2>9 DEF Among
  <2>11. t \in 0 .. Len(stream)
    BY <1>7
  <2>12. \/ Among(i, Open(t))
         \/ \E l \in t + 1 .. Len(stream) : stream[l].kind = "invoke" /\ stream[l].by = i
    BY <2>10, <2>11 DEF CutInv, StillOpen
  <2>13. PICK l \in t + 1 .. Len(stream) : stream[l].by = i
    BY <2>5, <2>12
  <2>. QED BY <1>1, <1>7, <2>13, ClosedForGood
<1>. QED BY <1>10, <1>11

LEMMA OkIsWhole ==
  ASSUME LInv, StreamIsSound, CutInv, Slices
  PROVE  AuditOkMeansWhole
<1> SUFFICES ASSUME phase = "attached", NEW i \in DOMAIN parsed, Audit(i) = "Ok"
             PROVE  i \notin lost /\ IsWhole(i)
  BY DEF AuditOkMeansWhole
<1>1. i \in 1 .. Len(parsed) /\ parsed[i] \in Parsed
  BY DEF LInv, Types
<1>2. PICK s \in Seq(Nat) : s = Slice(i)
  BY <1>1 DEF Parsed, Slice
<1>3. s # <<>> /\ (\A k \in DOMAIN s : s[k] # Marker) /\ Ends(Last(s))
  BY <1>2, AuditOkFacts DEF Ends
<1>4. ~Among(Marker, parsed[i].logs)
  BY <1>2, <1>3 DEF Among, Slice
<1>5. PICK r \in 0 .. Len(stream) : UpTo(i, r)
  BY <1>1, <1>4 DEF Slices
<1>. QED BY <1>1, <1>2, <1>3, <1>5, EndedIsWhole

(* audit_log_slice (log_fixture.rs): an Ok means that nothing the          *)
(* instruction wrote is missing from its slice, whatever became of the     *)
(* stream: no line of it was lost to the cut and none stayed in the        *)
(* stream unread.                                                          *)
THEOREM AuditOkAlwaysMeansWhole == LSpec => []AuditOkMeansWhole
<1>1. LInit => CutInv
  BY DEF LInit, CutInv, StillOpen, LossesAreCutOff, Open
<1>2. LInv /\ CutInv /\ [LNext]_lvars => CutInv'
  BY CutInvInductive
<1>. QED BY <1>1, <1>2, LInvHolds, StreamIsAlwaysSound, SlicesHold, OkIsWhole, PTL DEF LSpec

-----------------------------------------------------------------------------
(* A sound stream.                                                         *)

Whole ==
  /\ run.heights /\ run.logging = "on" /\ ~Forged
  /\ \A i \in DOMAIN list : list[i].program \notin Silent

(* From a sound stream the walk reads every line.                          *)
SoundIsRead == phase = "attached" /\ Whole => outcome = "complete"

(* No invoke names another instruction than the next.                      *)
LEMMA NextIsNamed ==
  ASSUME LInv, StreamIsSound, Whole, phase = "attaching", at < Len(stream),
         NEW n \in Nat, n = at + 1, stream[n].kind = "invoke"
  PROVE  /\ cursor + 1 \in 1 .. Len(parsed)
         /\ parsed[cursor + 1].program = stream[n].program
         /\ parsed[cursor + 1].height = stream[n].depth
<1>0. /\ at \in Nat /\ Len(stream) \in Nat /\ n \in 1 .. Len(stream) /\ n - 1 = at
      /\ cursor \in Nat /\ Len(parsed) = Len(list) /\ Len(list) \in Nat /\ list \in Seq(Instruction)
      /\ \A j \in 1 .. at : stream[j].kind = "invoke" => stream[j].by <= cursor
      /\ cursor = 0 \/ \E j \in 1 .. at : stream[j].kind = "invoke" /\ stream[j].by = cursor
  BY DEF LInv, Types, ParsedFaithfully, FramesAreOpenCalls
<1>1. PICK b \in 1 .. Len(list) : b = stream[n].by
  BY <1>0 DEF LInv, RuntimeInv, InvokesAreOrdered, OrderedAt
<1>2. /\ stream[n].program = list[b].program /\ stream[n].depth = list[b].height
  BY <1>0, <1>1 DEF StreamIsSound, Named, LInv, RuntimeInv, InvokesAreOrdered, OrderedAt
<1>3. /\ \A j \in 1 .. n - 1 : stream[j].kind = "invoke" => stream[j].by < b
      /\ \A i \in 1 .. b - 1 : IsSilent(i) \/ Invoked(i, n - 1)
  BY <1>0, <1>1 DEF LInv, RuntimeInv, InvokesAreOrdered, OrderedAt
<1>4. cursor < b
  BY <1>0, <1>1, <1>3
<1>5. ASSUME cursor + 1 < b PROVE FALSE
  <2>1. cursor + 1 \in 1 .. b - 1 /\ cursor + 1 \in DOMAIN list
    <3>1. cursor \in Nat /\ Len(list) \in Nat /\ DOMAIN list = 1 .. Len(list)
      BY <1>0
    <3>. QED BY <1>5, <3>1
  <2>2. ~IsSilent(cursor + 1)
    BY <2>1 DEF Whole, IsSilent
  <2>3. Invoked(cursor + 1, at)
    BY <1>0, <1>3, <2>1, <2>2
  <2>4. PICK j \in 1 .. at : stream[j].kind = "invoke" /\ stream[j].by = cursor + 1
    BY <2>3 DEF Invoked
  <2>. QED BY <1>0, <2>4
<1>6. b = cursor + 1
  BY <1>0, <1>1, <1>4, <1>5
<1>7. parsed[b].program = list[b].program /\ parsed[b].height = list[b].height
  BY <1>0 DEF LInv, ParsedFaithfully, Height, Whole
<1>. QED BY <1>0, <1>1, <1>2, <1>6, <1>7

LEMMA NotTheCut ==
  ASSUME StreamIsSound, Whole, NEW k \in 1 .. Len(stream), k \in DOMAIN stream
  PROVE  Effect(stream[k]) # "cut"
<1> DEFINE line == stream[k]
<1>1. line.kind # "truncated"
  BY DEF StreamIsSound, Plain, Whole
<1>2. line.note.tag # "says truncated"
  BY Zenon DEF Whole, Forged, line
<1> HIDE DEF line
<1>3. Effect(line) # "cut"
  BY <1>1, <1>2, Zenon DEF Effect
<1>. QED BY <1>3 DEF line

LEMMA SoundReadInductive ==
  ASSUME LInv, StreamIsSound, SoundIsRead, [LNext]_lvars
  PROVE  SoundIsRead'
<1>1. CASE Runtime \/ ParseInstruction \/ StartAttaching
  BY <1>1, RuntimeRuns DEF ParseInstruction, StartAttaching, SoundIsRead
<1>2. CASE AttachLine
  <2>1. phase = "attaching" /\ at < Len(stream) /\ UNCHANGED <<list, stream, run>>
    BY <1>2 DEF AttachLine, runtime
  <2>2. PICK n \in Nat : n = at + 1
    BY DEF LInv, Types
  <2>3. SUFFICES ASSUME Whole PROVE phase' # "attached"
    <3>1. Forged' = Forged
      BY <2>1 DEF Forged
    <3>2. Whole' = Whole
      BY <2>1, <3>1 DEF Whole
    <3>. QED BY <2>3, <3>2 DEF SoundIsRead
  <2>4. n \in 1 .. Len(stream) /\ n \in DOMAIN stream
    BY <1>2, <2>2, ReadStep DEF LInv, Types
  <2>5. Effect(stream[n]) # "cut"
    BY <2>3, <2>4, NotTheCut
  <2>6. ASSUME stream[n].kind = "invoke", AttachOpen(stream[n]) PROVE phase' = phase
    <3>1. /\ cursor + 1 \in 1 .. Len(parsed)
          /\ parsed[cursor + 1].program = stream[n].program
          /\ parsed[cursor + 1].height = stream[n].depth
      BY <2>1, <2>2, <2>3, <2>6, NextIsNamed
    <3>2. cursor # Len(parsed)
      BY <3>1 DEF LInv, Types
    <3>. QED BY <2>6, <3>1, <3>2 DEF AttachOpen
  <2>. QED BY <1>2, <2>1, <2>2, <2>5, <2>6, ReadStep
<1>3. CASE AttachEnd
  BY <1>3 DEF AttachEnd, Exit, SoundIsRead
<1>4. CASE UNCHANGED lvars
  <2>1. UNCHANGED <<list, stream, run, phase, outcome>>
    BY <1>4 DEF lvars, runtime, parser
  <2>2. Forged' = Forged
    BY <2>1 DEF Forged
  <2>3. Whole' = Whole
    BY <2>1, <2>2 DEF Whole
  <2>. QED BY <2>1, <2>3 DEF SoundIsRead
<1>. QED BY <1>1, <1>2, <1>3, <1>4 DEF LNext, Parser

(* What was written and read to the end passes the audit.                  *)
LEMMA SoundPasses ==
  ASSUME LInv, StreamIsSound, Slices, Whole, phase = "attached", outcome = "complete",
         NEW i \in 1 .. Len(parsed), NEW k \in OwnLines(i)
  PROVE  Audit(i) = "Ok"
<1>1. Types /\ OpensFollow /\ InvokesAreOrdered /\ stream \in Seq(Entry) /\ parsed[i] \in Parsed
      /\ Len(stream) \in Nat /\ phase # "running" /\ run.logging = "on"
      /\ DOMAIN stream = 1 .. Len(stream) /\ i \in Nat /\ i # None
  BY DEF LInv, RuntimeInv, Types, Whole, None
<1>2. PICK s \in Seq(Nat) : s = Slice(i)
  BY <1>1 DEF Parsed, Slice
<1>3. Lists(s, OwnLines(i), Len(stream))
  BY <1>2 DEF Slices, UpTo, Slice
<1>4. /\ \A n \in 1 .. Len(s) : s[n] \in 1 .. Len(stream) /\ stream[s[n]].by = i
      /\ \A l \in 1 .. Len(stream) : stream[l].by = i => Among(l, s)
  BY <1>1, <1>3 DEF Lists, OwnLines
<1>5. \A n \in 1 .. Len(s) : \A m \in 1 .. n - 1 : s[m] < s[n]
  BY <1>3 DEF Lists, Ascending
<1>6. /\ s # <<>> /\ Len(s) \in Nat /\ Len(s) \in 1 .. Len(s) /\ 1 \in 1 .. Len(s)
      /\ DOMAIN s = 1 .. Len(s) /\ Last(s) = s[Len(s)]
  <2>1. k \in 1 .. Len(stream) /\ stream[k].by = i
    BY <1>1 DEF OwnLines
  <2>2. PICK n \in 1 .. Len(s) : s[n] = k
    BY <1>4, <2>1 DEF Among
  <2>3. s # <<>>
    BY <2>2
  <2>. QED BY <2>3, LastFacts
<1>7. PICK first \in 1 .. Len(stream) : first = s[1]
  BY <1>4, <1>6
<1>8. PICK last \in 1 .. Len(stream) : last = s[Len(s)]
  BY <1>4, <1>6
<1>9. stream[first].by = i /\ stream[last].by = i
  BY <1>4, <1>6, <1>7, <1>8
<1>10. stream[first].kind = "invoke"
  <2>1. Invoked(i, first)
    BY <1>1, <1>9, FirstIsInvoke
  <2>2. PICK j \in 1 .. first : stream[j].kind = "invoke" /\ stream[j].by = i
    BY <2>1 DEF Invoked
  <2>3. j \in 1 .. Len(stream)
    OBVIOUS
  <2>4. PICK n \in 1 .. Len(s) : s[n] = j
    BY <1>4, <2>2, <2>3 DEF Among
  <2>5. n # 1 => s[1] < s[n]
    <3>1. n # 1 => 1 \in 1 .. n - 1
      OBVIOUS
    <3>. QED BY <1>5, <3>1
  <2>6. j = first
    BY <1>7, <2>3, <2>4, <2>5
  <2>. QED BY <2>2, <2>6
<1>11. ASSUME NEW n \in 2 .. Len(s) PROVE stream[s[n]].kind # "invoke"
  <2>1. n \in 1 .. Len(s) /\ 1 \in 1 .. n - 1
    BY <1>6
  <2>2. PICK l \in 1 .. Len(stream) : l = s[n]
    BY <1>4, <2>1
  <2>3. first < l /\ stream[l].by = i
    BY <1>4, <1>5, <1>7, <2>1, <2>2
  <2>4. stream[l].kind = "invoke" => first = l
    BY <1>1, <1>9, <1>10, <2>3, InvokedOnce
  <2>5. first # l
    BY <2>3
  <2>. QED BY <2>2, <2>4, <2>5
<1>12. Ends(last)
  <2>1. PICK l \in last .. Len(stream) : Ends(l) /\ stream[l].by = i
    BY <1>1, <1>9, EndsClosed
  <2>2. l \in 1 .. Len(stream)
    OBVIOUS
  <2>3. PICK n \in 1 .. Len(s) : s[n] = l
    BY <1>4, <2>1, <2>2 DEF Among
  <2>4. s[n] <= s[Len(s)]
    BY <1>3, TopIsLast DEF Lists
  <2>5. l = last
    <3>1. l <= last
      BY <1>8, <2>3, <2>4
    <3>2. last <= l /\ l \in Int /\ last \in Int
      OBVIOUS
    <3>. QED BY <3>1, <3>2
  <2>. QED BY <2>1, <2>5
<1>13. ASSUME NEW n \in DOMAIN s PROVE s[n] # Marker /\ Effect(stream[s[n]]) # "cut"
  <2>1. PICK l \in 1 .. Len(stream) : l = s[n]
    BY <1>4, <1>6
  <2>2. Effect(stream[l]) # "cut"
    BY <1>1, NotTheCut
  <2>. QED BY <2>1, <2>2 DEF Marker
<1>14. /\ stream[first].program = parsed[i].program /\ stream[last].program = parsed[i].program
       /\ stream[first].depth = parsed[i].height
  <2>1. parsed[i].program = list[i].program /\ parsed[i].height = list[i].height
    BY DEF LInv, ParsedFaithfully, Height, Whole
  <2>2. stream[first].program = list[i].program /\ stream[last].program = list[i].program
        /\ stream[first].depth = list[i].height
    <3>1. stream[first] \in Named /\ stream[last] \in Named
      BY DEF StreamIsSound
    <3>. QED BY <1>1, <1>9, <1>10, <3>1 DEF Named
  <2>. QED BY <2>1, <2>2
<1>. QED BY <1>2, <1>6, <1>7, <1>8, <1>10, <1>11, <1>12, <1>13, <1>14, AuditIsOk DEF Ends

LEMMA SoundIsAttributed ==
  ASSUME LInv, StreamIsSound, Slices, SoundIsRead
  PROVE  SoundStreamIsAttributed
<1> SUFFICES ASSUME phase = "attached", Whole, NEW i \in DOMAIN list, OwnLines(i) # {}
             PROVE  Audit(i) = "Ok"
  BY DEF SoundStreamIsAttributed, Whole
<1>1. i \in 1 .. Len(parsed) /\ outcome = "complete" /\ parsed[i] \in Parsed
  BY DEF LInv, Types, ParsedFaithfully, SoundIsRead
<1>. QED BY <1>1, SoundPasses

(* attach_logs (instruction.rs): of a transaction whose stream the runtime *)
(* recorded whole, failed or not, every instruction that ran is handed its *)
(* lines and passes the audit.                                             *)
THEOREM SoundStreamAlwaysAttributed == LSpec => []SoundStreamIsAttributed
<1>1. LInit => SoundIsRead
  BY DEF LInit, SoundIsRead
<1>2. LInv /\ StreamIsSound /\ SoundIsRead /\ [LNext]_lvars => SoundIsRead'
  BY SoundReadInductive
<1>. QED BY <1>1, <1>2, LInvHolds, StreamIsAlwaysSound, SlicesHold, SoundIsAttributed,
            PTL DEF LSpec

-----------------------------------------------------------------------------
(* The extraction.  It runs beside the walk, and what it reads of an       *)
(* instruction depends on four facts about what is read.                   *)
(* Every behaviour of the two together is one of the first alone.          *)
LEMMA ExtractionIsAttribution == ESpec => LSpec
<1>1. EInit => LInit
  BY DEF EInit
<1>2. [ENext]_vars => [LNext]_lvars
  BY DEF ENext, ReadInstruction, vars
<1>. QED BY <1>1, <1>2, PTL DEF ESpec, LSpec

(* An event is emitted by a program that called itself, and calls nothing. *)
CallersEmit ==
  \A i \in 1 .. Len(list) :
     /\ list[i].caller # None => list[list[i].caller].work.op # "event"
     /\ list[i].work.op = "event" =>
           list[i].caller # None /\ list[list[i].caller].program = list[i].program

LEMMA CallersEmitInductive ==
  ASSUME Types, CallsAreNested, CallersAreBelow, CallersEmit, Runtime
  PROVE  CallersEmit'
<1>0. /\ list \in Seq(Instruction) /\ list' \in Seq(Instruction) /\ Len(list) \in Nat
      /\ calls \in Seq(Nat) /\ Len(calls) \in Nat
  BY RuntimeTypes DEF Types
<1>1. Len(list') \in {Len(list), Len(list) + 1} /\ \A i \in 1 .. Len(list) : list'[i] = list[i]
  BY ListGrows
<1>2. ASSUME NEW i \in 1 .. Len(list)
      PROVE  /\ list'[i].caller # None => list'[list'[i].caller].work.op # "event"
             /\ list'[i].work.op = "event" =>
                   list'[i].caller # None /\ list'[list'[i].caller].program = list'[i].program
  <2>1. list[i].caller # None => list[i].caller \in 1 .. Len(list)
    BY <1>0 DEF CallersAreBelow
  <2>. QED BY <1>1, <2>1 DEF CallersEmit
<1>3. CASE \E p \in run.cast : \E w \in Works[p] : Invoke(p, w)
  <2>a. PICK p \in run.cast : \E w \in Works[p] : Invoke(p, w)
    BY <1>3
  <2>1. PICK w \in Works[p] : Invoke(p, w)
    BY <2>a
  <2>2. /\ Len(list') = Len(list) + 1
        /\ list'[Len(list) + 1].program = p
        /\ list'[Len(list) + 1].caller = IF calls = <<>> THEN None ELSE calls[Len(calls)]
    BY <2>1, InvokeFacts
  <2>3. list'[Len(list) + 1].work = w
    <3>1. list' = Append(list, [program |-> p, height |-> Len(calls) + 1, work |-> w,
                                caller |-> IF calls = <<>> THEN None ELSE Last(calls)])
      BY <2>1 DEF Invoke
    <3>. QED BY <1>0, <3>1
  <2>4. MayCall(p, w)
    BY <2>1 DEF Invoke
  <2>5. CASE calls = <<>>
    <3>1. w.op # "event" /\ list'[Len(list) + 1].caller = None
      BY <2>2, <2>4, <2>5 DEF MayCall
    <3>. QED BY <1>0, <1>2, <2>2, <2>3, <3>1 DEF CallersEmit
  <2>6. CASE calls # <<>>
    <3>1. PICK c \in 1 .. Len(list) : c = Last(calls) /\ c = calls[Len(calls)]
      BY <2>6, CallFacts
    <3>2. list[c].work.op # "event" /\ (w.op = "event" => list[c].program = p)
      BY <2>4, <2>6, <3>1 DEF MayCall
    <3>3. list'[Len(list) + 1].caller = c /\ list'[c] = list[c]
      BY <1>1, <2>2, <2>6, <3>1
    <3>4. c # None
      BY DEF None
    <3>5. PICK n \in Nat : n = Len(list) + 1
      BY <1>0
    <3>6. /\ list'[n].caller # None => list'[list'[n].caller].work.op # "event"
          /\ list'[n].work.op = "event" =>
                list'[n].caller # None /\ list'[list'[n].caller].program = list'[n].program
      BY <2>2, <2>3, <3>2, <3>3, <3>4, <3>5
    <3>7. \A i \in 1 .. Len(list') : i \in 1 .. Len(list) \/ i = n
      BY <1>0, <2>2, <3>5
    <3>. QED BY <1>2, <3>6, <3>7 DEF CallersEmit
  <2>. QED BY <2>5, <2>6
<1>4. ASSUME list' = list PROVE CallersEmit'
  BY <1>2, <1>4 DEF CallersEmit
<1>5. CASE Settle(<<>>)
  BY <1>0, <1>4, <1>5 DEF Settle
<1>6. CASE \E p \in run.cast \ Silent : \E w \in Works[p] :
             w.op # "event" /\ Settle(Unreached(p, w))
  <2>a. PICK p \in run.cast \ Silent : \E w \in Works[p] :
           w.op # "event" /\ Settle(Unreached(p, w))
    BY <1>6
  <2>1. PICK w \in Works[p] : w.op # "event" /\ Settle(Unreached(p, w))
    BY <2>a
  <2>2. list' = list \o <<[program |-> p, height |-> 1, work |-> w, caller |-> None]>>
    BY <2>1 DEF Settle, Unreached
  <2>3. Len(list') = Len(list) + 1 /\ list'[Len(list) + 1].caller = None
        /\ list'[Len(list) + 1].work = w
    BY <1>0, <2>2
  <2>4. list'[Len(list) + 1].work.op # "event"
    BY <2>1, <2>3
  <2>5. ASSUME NEW i \in 1 .. Len(list')
        PROVE  /\ list'[i].caller # None => list'[list'[i].caller].work.op # "event"
               /\ list'[i].work.op = "event" =>
                     list'[i].caller # None /\ list'[list'[i].caller].program = list'[i].program
    <3>1. i \in 1 .. Len(list) \/ i = Len(list) + 1
      BY <1>0, <2>3
    <3>2. CASE i \in 1 .. Len(list)
      BY <1>2, <3>2
    <3>3. CASE i = Len(list) + 1
      BY <2>3, <2>4, <3>3
    <3>. QED BY <3>1, <3>2, <3>3
  <2>. QED BY <2>5 DEF CallersEmit
<1>. QED BY <1>3, <1>4, <1>5, <1>6 DEF Runtime, Log, Return, Fail, Cut

(* Where the source reports no heights, all instructions are top level.    *)
NoHeightsNoParents ==
  ~run.heights => \A i \in 1 .. Len(parsed) : parsed[i].parent = None

LEMMA NoParentsInductive ==
  ASSUME LInv, NoHeightsNoParents, [LNext]_lvars
  PROVE  NoHeightsNoParents'
<1>0. /\ parsed \in Seq(Parsed) /\ Len(parsed) \in Nat /\ Types /\ ParsedFaithfully /\ StackIsPath
  BY DEF LInv, Types
<1>1. CASE Runtime
  <2>1. parsed = <<>> /\ parsed' = parsed
    BY <1>0, <1>1, RuntimeRuns DEF parser, ParsedFaithfully
  <2>. QED BY <2>1 DEF NoHeightsNoParents
<1>2. CASE ParseInstruction
  <2>1. PICK idx \in Nat : idx = Len(parsed) + 1
    BY <1>0
  <2>2. PICK above \in Seq(Nat) : above = Outranking(Height(idx))
    <3>1. Outranking(Height(idx)) \in Seq(Nat)
      BY <1>0, <1>2, <2>1, ParseFacts
    <3>. QED BY <3>1
  <2>a. /\ Len(above) \in 0 .. Len(stack)
        /\ \A n \in 1 .. Len(above) :
              above[n] = stack[n] /\ parsed[stack[n]].height < Height(idx)
    BY <1>0, <1>2, <2>1, <2>2, ParseFacts
  <2>b. Len(parsed') = idx /\ \A i \in 1 .. Len(parsed) : parsed'[i] = parsed[i]
    BY <1>0, <1>2, <2>1, <2>2, ParseFacts
  <2>c. parsed'[idx].parent = IF above = <<>> THEN None ELSE above[Len(above)]
    BY <1>0, <1>2, <2>1, <2>2, ParseFacts
  <2>3. /\ Len(above) \in 0 .. Len(stack)
        /\ \A n \in 1 .. Len(above) :
              above[n] = stack[n] /\ parsed[stack[n]].height < Height(idx)
        /\ Len(parsed') = idx
        /\ \A i \in 1 .. Len(parsed) : parsed'[i] = parsed[i]
        /\ parsed'[idx].parent = IF above = <<>> THEN None ELSE above[Len(above)]
    BY <2>a, <2>b, <2>c
  <2>4. UNCHANGED run
    BY <1>2 DEF ParseInstruction, runtime
  <2>5. SUFFICES ASSUME ~run.heights PROVE parsed'[idx].parent = None
    BY <1>0, <2>1, <2>3, <2>4 DEF NoHeightsNoParents
  <2>6. Height(idx) = 1
    BY <2>5 DEF Height
  <2>7. ASSUME above # <<>> PROVE FALSE
    <3>1. 1 \in 1 .. Len(above) /\ 1 \in 1 .. Len(stack)
      BY <2>3, <2>7
    <3>2. stack[1] \in 1 .. Len(parsed)
      BY <1>0, <3>1 DEF StackIsPath
    <3>3. parsed[stack[1]] \in Parsed
      BY <1>0, <3>2
    <3>4. parsed[stack[1]].height \in Nat \ {0}
      BY <3>3 DEF Parsed
    <3>5. parsed[stack[1]].height < 1
      BY <2>3, <2>6, <3>1
    <3>. QED BY <3>4, <3>5
  <2>. QED BY <2>3, <2>7
<1>3. CASE StartAttaching \/ AttachEnd
  BY <1>3 DEF StartAttaching, AttachEnd, NoHeightsNoParents, runtime, parser
<1>4. CASE AttachLine
  <2>1. UNCHANGED run
    BY <1>4 DEF AttachLine, runtime
  <2>2. /\ Len(parsed') = Len(parsed)
        /\ \A i \in 1 .. Len(parsed) : parsed'[i].parent = parsed[i].parent
    <3>1. ASSUME NEW to, NEW entry \in Nat, parsed' = Attached(to, entry)
          PROVE  /\ Len(parsed') = Len(parsed)
                 /\ \A i \in 1 .. Len(parsed) : parsed'[i].parent = parsed[i].parent
      BY <1>0, <3>1, AttachedFacts
    <3>2. Marker \in Nat
      BY DEF Marker
    <3>3. PICK n \in Nat : n = at + 1
      BY <1>0 DEF Types
    <3>. QED BY <1>4, <3>1, <3>2, <3>3, ReadStep
  <2>. QED BY <2>1, <2>2 DEF NoHeightsNoParents
<1>5. CASE UNCHANGED lvars
  BY <1>5 DEF NoHeightsNoParents, lvars, runtime, parser
<1>. QED BY <1>1, <1>2, <1>3, <1>4, <1>5 DEF LNext, Parser

(* A slice holds markers and lines that were written.                      *)
EntriesAreLines ==
  \A i \in 1 .. Len(parsed) : \A n \in 1 .. Len(parsed[i].logs) :
     parsed[i].logs[n] \in 0 .. Len(stream)

LEMMA EntriesInductive ==
  ASSUME LInv, EntriesAreLines, [LNext]_lvars
  PROVE  EntriesAreLines'
<1>0. /\ parsed \in Seq(Parsed) /\ Len(parsed) \in Nat /\ Types /\ ParsedFaithfully /\ StackIsPath
      /\ stream \in Seq(Entry) /\ Len(stream) \in Nat
  BY DEF LInv, Types
<1>1. CASE Runtime
  <2>1. parsed = <<>> /\ parsed' = parsed
    BY <1>0, <1>1, RuntimeRuns DEF parser, ParsedFaithfully
  <2>. QED BY <2>1 DEF EntriesAreLines
<1>2. CASE ParseInstruction
  <2>1. PICK idx \in Nat : idx = Len(parsed) + 1
    BY <1>0
  <2>2. /\ Len(parsed') = idx
        /\ \A i \in 1 .. Len(parsed) : parsed'[i] = parsed[i]
        /\ parsed'[idx].logs = <<>>
    BY <1>0, <1>2, <2>1, ParseFacts
  <2>3. UNCHANGED stream
    BY <1>2 DEF ParseInstruction, runtime
  <2>4. \A i \in 1 .. Len(parsed') : i \in 1 .. Len(parsed) \/ i = idx
    BY <1>0, <2>1, <2>2
  <2>. QED BY <2>2, <2>3, <2>4 DEF EntriesAreLines
<1>3. CASE StartAttaching \/ AttachEnd
  BY <1>3 DEF StartAttaching, AttachEnd, EntriesAreLines, runtime, parser
<1>4. CASE AttachLine
  <2>1. UNCHANGED stream
    BY <1>4 DEF AttachLine, runtime
  <2>2. ASSUME NEW to, NEW entry \in 0 .. Len(stream), parsed' = Attached(to, entry)
        PROVE  EntriesAreLines'
    <3>1. /\ Len(parsed') = Len(parsed)
          /\ \A i \in 1 .. Len(parsed) :
                parsed'[i].logs = IF i \in to THEN Append(parsed[i].logs, entry)
                                  ELSE parsed[i].logs
      BY <1>0, <2>2, AttachedFacts
    <3>2. ASSUME NEW i \in 1 .. Len(parsed), NEW n \in 1 .. Len(parsed'[i].logs)
          PROVE  parsed'[i].logs[n] \in 0 .. Len(stream)
      <4>1. parsed[i] \in Parsed
        BY <1>0
      <4>2. PICK s \in Seq(Nat) : s = parsed[i].logs
        BY <4>1 DEF Parsed
      <4>3. \A k \in 1 .. Len(s) : s[k] \in 0 .. Len(stream)
        BY <4>2 DEF EntriesAreLines
      <4>4. CASE i \in to
        <5>1. parsed'[i].logs = Append(s, entry)
          BY <3>1, <4>2, <4>4
        <5>2. (n \in 1 .. Len(s) /\ Append(s, entry)[n] = s[n]) \/ Append(s, entry)[n] = entry
          BY <5>1
        <5>. QED BY <4>3, <5>1, <5>2
      <4>5. CASE i \notin to
        BY <3>1, <4>2, <4>3, <4>5
      <4>. QED BY <4>4, <4>5
    <3>. QED BY <2>1, <3>1, <3>2 DEF EntriesAreLines
  <2>3. Marker \in 0 .. Len(stream)
    BY <1>0 DEF Marker
  <2>4. PICK n \in Nat : n = at + 1
    BY <1>0 DEF Types
  <2>5. n \in 1 .. Len(stream)
    BY <1>4, <2>4, ReadStep
  <2>6. n \in 0 .. Len(stream)
    BY <2>5
  <2>7. CASE parsed' = parsed
    BY <2>1, <2>7 DEF EntriesAreLines
  <2>. QED BY <1>4, <2>2, <2>3, <2>4, <2>6, <2>7, ReadStep
<1>5. CASE UNCHANGED lvars
  BY <1>5 DEF EntriesAreLines, lvars, runtime, parser
<1>. QED BY <1>1, <1>2, <1>3, <1>4, <1>5 DEF LNext, Parser

(* Parents lie before their children; those of an event emitted it.        *)
Family ==
  LInv /\ CallersEmit /\ NoHeightsNoParents /\ EntriesAreLines

LEMMA FamilyHolds == LSpec => []Family
<1>1. LInit => CallersEmit /\ NoHeightsNoParents /\ EntriesAreLines
  BY DEF LInit, CallersEmit, NoHeightsNoParents, EntriesAreLines
<1>2. LInv /\ CallersEmit /\ [LNext]_lvars => CallersEmit'
  <2> SUFFICES ASSUME LInv, CallersEmit, [LNext]_lvars PROVE CallersEmit'
    OBVIOUS
  <2>1. CASE Runtime
    BY <2>1, CallersEmitInductive DEF LInv, RuntimeInv
  <2>2. CASE UNCHANGED runtime
    BY <2>2 DEF CallersEmit, runtime
  <2>. QED BY <2>1, <2>2, ParserRuns DEF LNext, lvars
<1>3. LInv /\ NoHeightsNoParents /\ [LNext]_lvars => NoHeightsNoParents'
  BY NoParentsInductive
<1>5. LInv /\ EntriesAreLines /\ [LNext]_lvars => EntriesAreLines'
  BY EntriesInductive
<1>4. LInv /\ CallersEmit /\ NoHeightsNoParents /\ EntriesAreLines => Family
  BY DEF Family
<1>. QED BY <1>1, <1>2, <1>3, <1>4, <1>5, LInvHolds, PTL DEF LSpec

LEMMA FamilyFacts ==
  ASSUME Family, NEW i \in 1 .. Len(parsed)
  PROVE  /\ parsed[i].parent \in 0 .. i - 1
         /\ parsed[i].parent # None => run.heights /\ list[i].caller = parsed[i].parent
         /\ run.heights => list[i].caller = parsed[i].parent
         /\ i \in 1 .. Len(list) /\ Program(i) = list[i].program
         /\ i \in Nat /\ i # None
         /\ list[i].caller # None =>
               /\ list[i].caller \in 1 .. Len(parsed) /\ ~IsEvent(list[i].caller)
         /\ IsEvent(i) => list[i].caller # None /\ Program(list[i].caller) = Program(i)
<1>0. /\ Len(parsed) \in Nat /\ Len(list) \in Nat /\ Len(parsed) <= Len(list)
      /\ \A j \in 1 .. Len(parsed) : parsed[j].program = list[j].program
      /\ DOMAIN parsed = 1 .. Len(parsed)
      /\ i \in 1 .. Len(list) /\ i \in Nat /\ i # 0
  BY DEF Family, LInv, Types, ParsedFaithfully
<1>1. list[i].caller # None => list[i].caller \in 1 .. i - 1
  BY <1>0 DEF Family, LInv, RuntimeInv, CallersAreBelow
<1>2. list[i].caller # None => list[i].caller \in 1 .. Len(parsed)
  BY <1>0, <1>1
<1>3. CASE run.heights
  <2>1. list[i].caller = parsed[i].parent
    BY <1>0, <1>3 DEF Family, LInv, ParentIsCaller
  <2>. QED BY <1>0, <1>1, <1>2, <1>3, <2>1 DEF Family, CallersEmit, Program, IsEvent, Data, None
<1>4. CASE ~run.heights
  <2>1. parsed[i].parent = None
    BY <1>4 DEF Family, NoHeightsNoParents
  <2>. QED BY <1>0, <1>1, <1>2, <1>4, <2>1 DEF Family, CallersEmit, Program, IsEvent, Data, None
<1>. QED BY <1>3, <1>4

-----------------------------------------------------------------------------
(* The climb of resolve_outer_swap: every parent is met before its         *)
(* children, so it ends.                                                   *)
OwnSwap(j) == Program(j) = "damm" /\ ~IsEvent(j)

Climbs(f, n) ==
  f = [j \in 0 .. n |-> IF j = None THEN None
                        ELSE IF OwnSwap(j) THEN j ELSE f[parsed[j].parent]]

LEMMA ClimbExists ==
  ASSUME Family, NEW n \in 0 .. Len(parsed)
  PROVE  \E f : Climbs(f, n)
<1> DEFINE Bad == {m \in 0 .. Len(parsed) : ~\E f : Climbs(f, m)}
<1>1. Len(parsed) \in Nat
  BY DEF Family, LInv, Types
<1>2. SUFFICES ASSUME Bad # {} PROVE FALSE
  OBVIOUS
<1>3. Bad \in SUBSET Nat
  BY <1>1
<1>4. PICK m \in Bad : \A k \in Bad : m <= k
  BY <1>2, <1>3, LeastNatural
<1>5. m \in 0 .. Len(parsed) /\ (~\E f : Climbs(f, m))
  BY <1>4
<1>6. CASE m = 0
  <2> DEFINE f == [j \in 0 .. m |-> None]
  <2>1. \A j \in 0 .. m : j = None
    BY <1>6 DEF None
  <2>2. f = [j \in 0 .. m |-> IF j = None THEN None
                              ELSE IF OwnSwap(j) THEN j ELSE f[parsed[j].parent]]
    BY <2>1
  <2> HIDE DEF f
  <2>3. Climbs(f, m)
    BY <2>2 DEF Climbs
  <2>. QED BY <1>5, <2>3
<1>7. CASE m # 0
  <2>1. m - 1 \in 0 .. Len(parsed) /\ m - 1 < m /\ m \in Nat
    BY <1>1, <1>5, <1>7
  <2>2. m - 1 \notin Bad
    BY <1>4, <2>1
  <2>3. PICK f : Climbs(f, m - 1)
    BY <2>1, <2>2
  <2> DEFINE g == [j \in 0 .. m |-> IF j = m THEN IF OwnSwap(m) THEN m ELSE f[parsed[m].parent]
                                    ELSE f[j]]
  <2>4. ASSUME NEW j \in 0 .. m
        PROVE  g[j] = IF j = None THEN None ELSE IF OwnSwap(j) THEN j ELSE g[parsed[j].parent]
    <3>1. CASE j = m
      <4>1. parsed[m].parent \in 0 .. m - 1 /\ m # None
        BY <1>5, <1>7, <2>1, FamilyFacts DEF None
      <4>2. g[parsed[m].parent] = f[parsed[m].parent]
        BY <2>1, <4>1
      <4>3. g[m] = IF OwnSwap(m) THEN m ELSE f[parsed[m].parent]
        BY <2>1
      <4> HIDE DEF g
      <4>. QED BY <3>1, <4>1, <4>2, <4>3
    <3>2. CASE j # m
      <4>1. j \in 0 .. m - 1 /\ g[j] = f[j]
        BY <2>1, <3>2
      <4>2. f[j] = IF j = None THEN None ELSE IF OwnSwap(j) THEN j ELSE f[parsed[j].parent]
        BY <2>3, <4>1 DEF Climbs
      <4>3. CASE j = None
        BY <4>1, <4>2, <4>3
      <4>4. CASE j # None
        <5>1. parsed[j].parent \in 0 .. j - 1
          BY <1>5, <2>1, <4>1, <4>4, FamilyFacts DEF None
        <5>2. parsed[j].parent \in 0 .. m /\ parsed[j].parent # m
          <6>1. j \in 0 .. m - 1
            BY <4>1
          <6> HIDE DEF g
          <6>. QED BY <2>1, <5>1, <6>1
        <5>3. g[parsed[j].parent] = f[parsed[j].parent]
          BY <5>2
        <5> HIDE DEF g
        <5>. QED BY <4>1, <4>2, <4>4, <5>3
      <4>. QED BY <4>3, <4>4
    <3>. QED BY <3>1, <3>2
  <2>5. DOMAIN g = 0 .. m /\ g = [j \in 0 .. m |-> g[j]]
    OBVIOUS
  <2> HIDE DEF g
  <2>6. g = [j \in 0 .. m |-> IF j = None THEN None
                              ELSE IF OwnSwap(j) THEN j ELSE g[parsed[j].parent]]
    BY <2>4, <2>5
  <2>7. Climbs(g, m)
    BY <2>6 DEF Climbs
  <2>. QED BY <1>5, <2>7
<1>. QED BY <1>6, <1>7

LEMMA OuterSwapFacts ==
  ASSUME Family, NEW i \in 1 .. Len(parsed)
  PROVE  /\ parsed[i].parent = None => OuterSwap(i) = None
         /\ parsed[i].parent # None /\ OwnSwap(parsed[i].parent) => OuterSwap(i) = parsed[i].parent
<1>1. parsed[i].parent \in 0 .. Len(parsed) /\ Len(parsed) \in Nat
  <2>1. Len(parsed) \in Nat
    BY DEF Family, LInv, Types
  <2>. QED BY <2>1, FamilyFacts
<1> DEFINE outer == CHOOSE f : Climbs(f, Len(parsed))
<1>2. Climbs(outer, Len(parsed))
  <2>1. Len(parsed) \in 0 .. Len(parsed)
    BY <1>1
  <2>. QED BY <2>1, ClimbExists
<1>3. OuterSwap(i) = outer[parsed[i].parent]
  BY DEF OuterSwap, Climbs, OwnSwap
<1> HIDE DEF outer
<1>4. outer[parsed[i].parent] =
         IF parsed[i].parent = None THEN None
         ELSE IF OwnSwap(parsed[i].parent) THEN parsed[i].parent
         ELSE outer[parsed[parsed[i].parent].parent]
  BY <1>1, <1>2 DEF Climbs
<1>. QED BY <1>3, <1>4

-----------------------------------------------------------------------------
(* What an instruction emitted.                                            *)

LEMMA CarrierFacts ==
  ASSUME Family, NEW i \in 1 .. Len(parsed), NEW event
  PROVE  /\ Carriers(i, event) \in SUBSET Nat
         /\ \A c \in Carriers(i, event) :
               /\ c \in 1 .. Len(parsed) /\ run.heights /\ list[c].caller = i
               /\ Program(c) = Program(i) /\ IsEvent(c) /\ Data(c).event = event
         /\ run.heights => \A c \in 1 .. Len(parsed) :
               list[c].caller = i /\ IsEvent(c) /\ Data(c).event = event => c \in Carriers(i, event)
<1>1. DOMAIN parsed = 1 .. Len(parsed) /\ Len(parsed) \in Nat /\ i # None
  BY FamilyFacts DEF Family, LInv, Types
<1>2. ASSUME NEW c \in Carriers(i, event)
      PROVE  /\ c \in 1 .. Len(parsed) /\ run.heights /\ list[c].caller = i
             /\ Program(c) = Program(i) /\ IsEvent(c) /\ Data(c).event = event
  <2>1. c \in 1 .. Len(parsed) /\ parsed[c].parent = i
        /\ Program(c) = Program(i) /\ IsEvent(c) /\ Data(c).event = event
    BY <1>1 DEF Carriers
  <2>. QED BY <1>1, <2>1, FamilyFacts
<1>3. ASSUME run.heights, NEW c \in 1 .. Len(parsed),
             list[c].caller = i, IsEvent(c), Data(c).event = event
      PROVE  c \in Carriers(i, event)
  <2>1. parsed[c].parent = i /\ Program(c) = Program(i)
    BY <1>1, <1>3, FamilyFacts
  <2>. QED BY <1>1, <1>3, <2>1 DEF Carriers
<1>. QED BY <1>1, <1>2, <1>3

LEMMA LoggedFacts ==
  ASSUME Family, NEW i \in 1 .. Len(parsed), NEW event
  PROVE  /\ Logged(i, event) \in SUBSET Nat
         /\ \A k \in Logged(i, event) :
               /\ k \in DOMAIN Slice(i) /\ Slice(i)[k] # Marker
               /\ Slice(i)[k] \in DOMAIN stream
               /\ stream[Slice(i)[k]].by = i
               /\ stream[Slice(i)[k]].note.tag = "data"
               /\ stream[Slice(i)[k]].note.event = event
<1>1. PICK s \in Seq(Nat) : s = Slice(i)
  <2>1. parsed[i] \in Parsed
    BY DEF Family, LInv, Types
  <2>. QED BY <2>1 DEF Parsed, Slice
<1>2. DOMAIN s = 1 .. Len(s) /\ DOMAIN s \in SUBSET Nat
  BY <1>1
<1>3. DOMAIN parsed = 1 .. Len(parsed) /\ DOMAIN stream = 1 .. Len(stream) /\ Len(stream) \in Nat
  BY DEF Family, LInv, Types
<1>4. LogsAreOwn /\ EntriesAreLines
  BY DEF Family, LInv
<1>5. \A k \in DOMAIN Slice(i) :
         Slice(i)[k] # Marker => Slice(i)[k] \in DOMAIN stream /\ stream[Slice(i)[k]].by = i
  <2> SUFFICES ASSUME NEW k \in DOMAIN Slice(i), Slice(i)[k] # Marker
               PROVE  Slice(i)[k] \in DOMAIN stream /\ stream[Slice(i)[k]].by = i
    OBVIOUS
  <2>1. stream[Slice(i)[k]].by = i
    BY <1>3, <1>4 DEF LogsAreOwn
  <2>2. s[k] \in 0 .. Len(stream)
    BY <1>1, <1>2, <1>4 DEF EntriesAreLines, Slice
  <2>. QED BY <1>1, <1>3, <2>1, <2>2 DEF Marker
<1>6. Logged(i, event) \subseteq DOMAIN Slice(i)
  BY DEF Logged
<1>7. \A k \in Logged(i, event) :
               /\ k \in DOMAIN Slice(i) /\ Slice(i)[k] # Marker
               /\ stream[Slice(i)[k]].note.tag = "data"
               /\ stream[Slice(i)[k]].note.event = event
  BY DEF Logged
<1>. QED BY <1>1, <1>2, <1>5, <1>6, <1>7

(* The event of an instruction was emitted by it, or there is none.        *)
LEMMA ChildEventFacts ==
  ASSUME Family, NEW i \in 1 .. Len(parsed), NEW event
  PROVE  \/ \E c \in Carriers(i, event) :
               /\ ChildEvent(i, event).is = (IF Data(c).good THEN "decoded" ELSE "undecodable")
               /\ ChildEvent(i, event).pool = Data(c).pool
               /\ ChildEvent(i, event).source = [via |-> "cpi", at |-> c]
         \/ /\ Carriers(i, event) = {}
            /\ \E k \in Logged(i, event) :
                  /\ ChildEvent(i, event).is =
                        (IF stream[Slice(i)[k]].note.good THEN "decoded" ELSE "undecodable")
                  /\ ChildEvent(i, event).source = [via |-> "log", at |-> Slice(i)[k]]
         \/ /\ Carriers(i, event) = {} /\ Logged(i, event) = {}
            /\ ChildEvent(i, event).is = "missing"
            /\ ChildEvent(i, event).source = [via |-> "none", at |-> None]
<1>1. CASE Carriers(i, event) # {}
  <2>1. Min(Carriers(i, event)) \in Carriers(i, event)
    BY <1>1, CarrierFacts, MinFacts
  <2>2. PICK c \in Carriers(i, event) : c = Min(Carriers(i, event))
    BY <2>1
  <2>3. ChildEvent(i, event) = Found(Data(c), "cpi", c)
    BY <1>1, <2>2 DEF ChildEvent
  <2>. QED BY <2>3 DEF Found
<1>2. CASE Carriers(i, event) = {} /\ Logged(i, event) # {}
  <2>1. Min(Logged(i, event)) \in Logged(i, event)
    BY <1>2, LoggedFacts, MinFacts
  <2>2. PICK k \in Logged(i, event) : k = Min(Logged(i, event))
    BY <2>1
  <2>3. ChildEvent(i, event) = Found(stream[Slice(i)[k]].note, "log", Slice(i)[k])
    BY <1>2, <2>2 DEF ChildEvent
  <2>. QED BY <1>2, <2>3 DEF Found
<1>3. CASE Carriers(i, event) = {} /\ Logged(i, event) = {}
  BY <1>3 DEF ChildEvent, Missing
<1>. QED BY <1>1, <1>2, <1>3

-----------------------------------------------------------------------------
(* What an instruction becomes.                                            *)

LEMMA PumpCases ==
  ASSUME NEW i, Program(i) \in {"pumpfun", "pumpswap"}
  PROVE  \/ IsEvent(i) /\ Extract(i) = Nothing
         \/ ~IsEvent(i) /\ Data(i).op \notin DOMAIN Recipes[Program(i)] /\ Extract(i) = Undecoded
         \/ /\ ~IsEvent(i) /\ Data(i).op \in DOMAIN Recipes[Program(i)] /\ Holding(i) # {}
            /\ Extract(i) = Refused(FirstError(i))
         \/ /\ ~IsEvent(i) /\ Data(i).op \in DOMAIN Recipes[Program(i)] /\ Holding(i) = {}
            /\ LET recipe == Recipes[Program(i)][Data(i).op]
               IN  Extract(i) = RowFrom(i, ChildEvent(i, recipe.event),
                                   recipe.fills /\ ChildEvent(i, "Complete").is = "decoded")
<1>1. Extract(i) = ExtractPump(i)
  BY DEF Extract
<1>. QED BY <1>1 DEF ExtractPump

(* The row of an instruction says where its event is from.                 *)
OwnRow(i, row) ==
  /\ row.ix = i
  /\ \/ row.source.via = "none" /\ row.of = i /\ Program(i) # "damm"
     \/ /\ row.source.via = "cpi" /\ row.of = i /\ Program(i) # "damm"
        /\ row.source.at \in 1 .. Len(parsed) /\ list[row.source.at].caller = i
        /\ Program(row.source.at) = Program(i)
     \/ /\ row.source.via = "log" /\ row.of = i /\ Program(i) # "damm"
        /\ row.source.at \in DOMAIN stream /\ stream[row.source.at].by = i
     \/ /\ row.source.via = "cpi" /\ Program(i) = "damm" /\ row.source.at = i
        /\ row.of = list[i].caller /\ row.of \in 1 .. Len(parsed) /\ Program(row.of) = "damm"

LEMMA PumpRow ==
  ASSUME Family, NEW i \in 1 .. Len(parsed), Program(i) \in {"pumpfun", "pumpswap"},
         Extract(i).is = "row"
  PROVE  /\ OwnRow(i, Extract(i).row)
         /\ ~IsEvent(i) /\ Data(i).op \in DOMAIN Recipes[Program(i)] /\ Holding(i) = {}
         /\ Extract(i).row.kind = Recipes[Program(i)][Data(i).op].kind
         /\ Extract(i).row.completed <=>
               (/\ Recipes[Program(i)][Data(i).op].fills
                /\ ChildEvent(i, "Complete").is = "decoded")
<1> DEFINE recipe == Recipes[Program(i)][Data(i).op]
           done == recipe.fills /\ ChildEvent(i, "Complete").is = "decoded"
<1>1. ~IsEvent(i) /\ Data(i).op \in DOMAIN Recipes[Program(i)] /\ Holding(i) = {}
      /\ Extract(i) = RowFrom(i, ChildEvent(i, recipe.event), done)
  BY PumpCases DEF Nothing, Undecoded, Refused
<1> HIDE DEF done
<1>2. /\ Extract(i).row.ix = i /\ Extract(i).row.of = i /\ Extract(i).row.kind = recipe.kind
      /\ Extract(i).row.source = ChildEvent(i, recipe.event).source
      /\ Extract(i).row.completed = done
  BY <1>1 DEF RowFrom, Row
<1> HIDE DEF recipe
<1>3. OwnRow(i, Extract(i).row)
  <2> DEFINE row == Extract(i).row
  <2>1. CASE \E c \in Carriers(i, recipe.event) : row.source = [via |-> "cpi", at |-> c]
    <3>1. PICK c \in Carriers(i, recipe.event) : row.source = [via |-> "cpi", at |-> c]
      BY <2>1
    <3>2. row.source.via = "cpi" /\ row.source.at = c
      BY <3>1
    <3>3. c \in 1 .. Len(parsed) /\ list[c].caller = i /\ Program(c) = Program(i)
      BY CarrierFacts
    <3> HIDE DEF row
    <3>4. row.ix = i /\ row.of = i
      BY <1>2 DEF row
    <3>5. OwnRow(i, row)
      BY <3>2, <3>3, <3>4 DEF OwnRow
    <3>. QED BY <3>5 DEF row
  <2>2. CASE \E k \in Logged(i, recipe.event) : row.source = [via |-> "log", at |-> Slice(i)[k]]
    <3>1. PICK k \in Logged(i, recipe.event) : row.source = [via |-> "log", at |-> Slice(i)[k]]
      BY <2>2
    <3>2. row.source.via = "log" /\ row.source.at = Slice(i)[k]
      BY <3>1
    <3>3. Slice(i)[k] \in DOMAIN stream /\ stream[Slice(i)[k]].by = i
      BY LoggedFacts
    <3> HIDE DEF row
    <3>4. row.ix = i /\ row.of = i
      BY <1>2 DEF row
    <3>5. OwnRow(i, row)
      BY <3>2, <3>3, <3>4 DEF OwnRow
    <3>. QED BY <3>5 DEF row
  <2>3. CASE row.source = [via |-> "none", at |-> None]
    BY <1>2, <2>3 DEF OwnRow
  <2>4. \/ \E c \in Carriers(i, recipe.event) :
              ChildEvent(i, recipe.event).source = [via |-> "cpi", at |-> c]
        \/ \E k \in Logged(i, recipe.event) :
              ChildEvent(i, recipe.event).source = [via |-> "log", at |-> Slice(i)[k]]
        \/ ChildEvent(i, recipe.event).source = [via |-> "none", at |-> None]
    BY ChildEventFacts
  <2>. QED BY <1>2, <2>1, <2>2, <2>3, <2>4
<1>4. Extract(i).row.completed <=> done
  <2>1. done \in BOOLEAN
    BY DEF done
  <2>. QED BY <1>2, <2>1
<1>5. Extract(i).row.kind = Recipes[Program(i)][Data(i).op].kind
  BY <1>2 DEF recipe
<1>6. done <=> (/\ Recipes[Program(i)][Data(i).op].fills
                /\ ChildEvent(i, "Complete").is = "decoded")
  BY DEF done, recipe
<1>. QED BY <1>1, <1>3, <1>4, <1>5, <1>6

LEMMA DlmmRow ==
  ASSUME Family, NEW i \in 1 .. Len(parsed), Program(i) = "dlmm", Extract(i).is = "row"
  PROVE  OwnRow(i, Extract(i).row)
<1> DEFINE carriers == Carriers(i, "Swap")
<1>1. Extract(i) = ExtractDlmm(i)
  BY DEF Extract
<1>2. carriers # {}
      /\ Extract(i) = Row(i, "Swap", i, [via |-> "cpi", at |-> Min(carriers)], FALSE)
  <2>1. Extract(i) # Nothing /\ Extract(i) # Undecoded
    BY DEF Nothing, Undecoded
  <2>. QED BY <1>1, <2>1, Zenon DEF ExtractDlmm
<1>3. PICK c \in carriers : c = Min(carriers)
  BY <1>2, CarrierFacts, MinFacts
<1>4. PICK row : row = Extract(i).row
  OBVIOUS
<1>5. row.ix = i /\ row.of = i /\ row.source.via = "cpi" /\ row.source.at = c
  BY <1>2, <1>3, <1>4 DEF Row
<1>6. c \in 1 .. Len(parsed) /\ list[c].caller = i /\ Program(c) = Program(i)
  BY CarrierFacts
<1>. QED BY <1>4, <1>5, <1>6 DEF OwnRow

LEMMA DammRow ==
  ASSUME Family, NEW i \in 1 .. Len(parsed), Program(i) = "damm", Extract(i).is = "row"
  PROVE  OwnRow(i, Extract(i).row)
<1>1. Extract(i) = ExtractDamm(i)
  BY DEF Extract
<1>2. IsEvent(i) /\ OuterSwap(i) # None
      /\ Extract(i) = Row(i, "Swap", OuterSwap(i), [via |-> "cpi", at |-> i], FALSE)
  <2>1. Extract(i) # Nothing
    BY DEF Nothing
  <2>. QED BY <1>1, <2>1, Zenon DEF ExtractDamm
<1>3. PICK p : p = parsed[i].parent
  OBVIOUS
<1>4. p # None /\ list[i].caller = p
  BY <1>2, <1>3, OuterSwapFacts, FamilyFacts
<1>5. p \in 1 .. Len(parsed) /\ ~IsEvent(p) /\ Program(p) = Program(i)
  BY <1>2, <1>4, FamilyFacts
<1>6. OuterSwap(i) = p
  BY <1>3, <1>4, <1>5, OuterSwapFacts DEF OwnSwap
<1>7. PICK row : row = Extract(i).row
  OBVIOUS
<1>8. row.ix = i /\ row.of = p /\ row.source.via = "cpi" /\ row.source.at = i
  BY <1>2, <1>6, <1>7 DEF Row
<1>. QED BY <1>4, <1>5, <1>7, <1>8 DEF OwnRow

LEMMA RowIsOwn ==
  ASSUME Family, NEW i \in 1 .. Len(parsed), Extract(i).is = "row"
  PROVE  OwnRow(i, Extract(i).row)
<1>1. Program(i) \in {"pumpfun", "pumpswap", "dlmm", "damm"}
  BY DEF Extract, Nothing
<1>. QED BY <1>1, PumpRow, DlmmRow, DammRow

-----------------------------------------------------------------------------
(* Reading changes nothing of what is read.                                *)
LEMMA CarriersFrame ==
  ASSUME UNCHANGED lvars, NEW i, NEW event
  PROVE  /\ Carriers(i, event)' = Carriers(i, event)
         /\ Logged(i, event)' = Logged(i, event)
         /\ ChildEvent(i, event)' = ChildEvent(i, event)
<1>1. parsed' = parsed /\ list' = list /\ stream' = stream
  BY DEF lvars, runtime, parser
<1>2. Carriers(i, event)' = Carriers(i, event)
  BY <1>1 DEF Carriers, Program, IsEvent, Data
<1>3. Logged(i, event)' = Logged(i, event)
  BY <1>1 DEF Logged, Slice
<1>4. ChildEvent(i, event)' = ChildEvent(i, event)
  BY <1>1, <1>2, <1>3 DEF ChildEvent, Found, Data, Slice
<1>. QED BY <1>2, <1>3, <1>4

\* Refusals, of what it reads.
RefusalsOf(recipe, event, complete, program, data) ==
  <<[error |-> "event_missing",     holds |-> recipe.required /\ event.is = "missing"],
    [error |-> "event_undecodable", holds |-> event.is = "undecodable"],
    [error |-> "account_layout",
     holds |-> data.pool = NoPool /\ ~(program = "pumpfun" /\ data.op = "collect")],
    [error |-> "corroboration",     holds |-> recipe.checked /\ event.pool # data.pool],
    [error |-> "event_undecodable", holds |-> recipe.fills /\ complete.is = "undecodable"]>>

LEMMA PumpFrame ==
  ASSUME UNCHANGED lvars, NEW i
  PROVE  ExtractPump(i)' = ExtractPump(i)
<1>1. parsed' = parsed /\ list' = list /\ stream' = stream
  BY DEF lvars, runtime, parser
<1>2. /\ Program(i)' = Program(i) /\ Data(i)' = Data(i) /\ (IsEvent(i)' <=> IsEvent(i))
  BY <1>1 DEF Program, Data, IsEvent
<1>4. \A event : ChildEvent(i, event)' = ChildEvent(i, event)
  BY CarriersFrame
<1>5. Refusals(i)' = Refusals(i)
  <2> DEFINE Read == RefusalsOf(Recipes[Program(i)][Data(i).op],
                               ChildEvent(i, Recipes[Program(i)][Data(i).op].event),
                               ChildEvent(i, "Complete"), Program(i), Data(i))
  <2>1. Refusals(i) = Read
    BY DEF Refusals, RefusalsOf, Disagree, LayoutFails
  <2>2. Refusals(i)' = Read'
    BY DEF Refusals, RefusalsOf, Disagree, LayoutFails
  <2>3. Read' = Read
    BY <1>2, <1>4
  <2>. QED BY <2>1, <2>2, <2>3
<1>6. Holding(i)' = Holding(i) /\ FirstError(i)' = FirstError(i)
  BY <1>5 DEF Holding, FirstError
<1>7. ExtractPump(i)' = ExtractPump(i)
  BY <1>2, <1>4, <1>6 DEF ExtractPump, RowFrom
<1>. QED BY <1>7

LEMMA ExtractFrame ==
  ASSUME UNCHANGED lvars, NEW i
  PROVE  Extract(i)' = Extract(i) /\ Discover(i)' = Discover(i)
<1>1. parsed' = parsed /\ list' = list /\ stream' = stream
  BY DEF lvars, runtime, parser
<1>2. /\ Program(i)' = Program(i) /\ Data(i)' = Data(i) /\ (IsEvent(i)' <=> IsEvent(i))
  BY <1>1 DEF Program, Data, IsEvent
<1>3. Carriers(i, "Swap")' = Carriers(i, "Swap")
  BY CarriersFrame
<1>4. ExtractDlmm(i)' = ExtractDlmm(i)
  <2>1. Data(Min(Carriers(i, "Swap")))' = Data(Min(Carriers(i, "Swap")))
    BY <1>1, <1>3 DEF Data
  <2>. QED BY <1>2, <1>3, <2>1 DEF ExtractDlmm
<1>5. OuterSwap(i)' = OuterSwap(i)
  BY <1>1 DEF OuterSwap, Program, IsEvent, Data
<1>6. ExtractDamm(i)' = ExtractDamm(i)
  <2>1. Data(OuterSwap(i))' = Data(OuterSwap(i))
    BY <1>1, <1>5 DEF Data
  <2>. QED BY <1>2, <1>5, <2>1 DEF ExtractDamm
<1>7. Extract(i)' = Extract(i)
  BY <1>2, <1>4, <1>6, PumpFrame DEF Extract
<1>8. Discover(i)' = Discover(i)
  BY <1>2 DEF Discover
<1>. QED BY <1>7, <1>8

-----------------------------------------------------------------------------
(* What the loop of extract_transaction has written when it has dispatched *)
(* the first `read` instructions.                                          *)
Becomes(i, what) == run.ok /\ Extract(i).is = what

TapeIsExtract ==
  /\ tape \in Seq({Extract(i).row : i \in 1 .. Len(parsed)})
  /\ \A k \in 1 .. Len(tape) :
        \E i \in 1 .. read : tape[k].ix = i /\ Becomes(i, "row") /\ tape[k] = Extract(i).row
  /\ \A m, n \in 1 .. Len(tape) : m < n => tape[m].ix < tape[n].ix
  /\ \A i \in 1 .. read : Becomes(i, "row") => \E k \in 1 .. Len(tape) : tape[k] = Extract(i).row

Report(i) == [ix |-> i, error |-> Extract(i).error]

ReportsAreRefusals ==
  /\ reports \in Seq({Report(i) : i \in 1 .. Len(parsed)})
  /\ \A k \in 1 .. Len(reports) :
        \E i \in 1 .. read : Becomes(i, "refused") /\ reports[k] = Report(i)
  /\ \A i \in 1 .. read :
        Becomes(i, "refused") => \E k \in 1 .. Len(reports) : reports[k] = Report(i)

UnreadIsUndecoded == unread = {i \in 1 .. read : Becomes(i, "undecoded")}

EdgesAreDiscovered == \A i \in 1 .. read : Discover(i) \subseteq edges

Reading ==
  /\ read \in 0 .. Len(parsed)
  /\ phase # "attached" => read = 0
  /\ TapeIsExtract /\ ReportsAreRefusals /\ UnreadIsUndecoded /\ EdgesAreDiscovered

LEMMA AttachedIsOver == ASSUME LNext PROVE phase # "attached"
BY DEF LNext, Runtime, Invoke, Log, Return, Fail, Cut, Settle,
       Parser, ParseInstruction, StartAttaching, AttachLine, AttachEnd

\* Before the first instruction is dispatched there is nothing.
LEMMA NothingRead ==
  ASSUME Reading, read = 0
  PROVE  tape = <<>> /\ reports = <<>> /\ unread = {}
<1>1. \A k \in 1 .. Len(tape) : FALSE
  BY DEF Reading, TapeIsExtract
<1>2. \A k \in 1 .. Len(reports) : FALSE
  BY DEF Reading, ReportsAreRefusals
<1>3. tape = <<>>
  <2> DEFINE S == {Extract(i).row : i \in 1 .. Len(parsed)}
  <2>1. tape \in Seq(S)
    BY DEF Reading, TapeIsExtract
  <2> HIDE DEF S
  <2>. QED BY <1>1, <2>1
<1>4. reports = <<>>
  <2> DEFINE S == {Report(i) : i \in 1 .. Len(parsed)}
  <2>1. reports \in Seq(S)
    BY DEF Reading, ReportsAreRefusals
  <2> HIDE DEF S
  <2>. QED BY <1>2, <2>1
<1>5. unread = {}
  BY DEF Reading, UnreadIsUndecoded
<1>. QED BY <1>3, <1>4, <1>5

LEMMA ReadingBegins ==
  ASSUME Len(parsed) \in Nat, read = 0, tape = <<>>, reports = <<>>, unread = {}
  PROVE  Reading
<1>1. TapeIsExtract
  <2> DEFINE S == {Extract(i).row : i \in 1 .. Len(parsed)}
  <2>1. tape \in Seq(S)
    <3> HIDE DEF S
    <3>. QED OBVIOUS
  <2>2. 1 .. Len(tape) = {} /\ 1 .. read = {}
    OBVIOUS
  <2>. QED BY <2>1, <2>2 DEF TapeIsExtract
<1>2. ReportsAreRefusals
  <2> DEFINE S == {Report(i) : i \in 1 .. Len(parsed)}
  <2>1. reports \in Seq(S)
    <3> HIDE DEF S
    <3>. QED OBVIOUS
  <2>2. 1 .. Len(reports) = {} /\ 1 .. read = {}
    OBVIOUS
  <2>. QED BY <2>1, <2>2 DEF ReportsAreRefusals
<1>3. UnreadIsUndecoded /\ EdgesAreDiscovered
  BY DEF UnreadIsUndecoded, EdgesAreDiscovered
<1>. QED BY <1>1, <1>2, <1>3 DEF Reading

\* What one turn of the loop does, said of the invariant's own terms.
LEMMA OneTurn ==
  ASSUME Family, Reading, ReadInstruction
  PROVE  /\ read' = read + 1 /\ read \in Nat /\ read' \in 1 .. Len(parsed)
         /\ UNCHANGED lvars /\ phase = "attached" /\ Len(parsed) \in Nat
         /\ edges' = edges \cup Discover(read')
         /\ tape' = IF Becomes(read', "row") THEN Append(tape, Extract(read').row) ELSE tape
         /\ reports' = IF Becomes(read', "refused") THEN Append(reports, Report(read'))
                       ELSE reports
         /\ unread' = unread \cup {i \in {read'} : Becomes(i, "undecoded")}
<1>1. Len(parsed) \in Nat
  BY DEF Family, LInv, Types
<1>2. /\ read' = read + 1 /\ read \in Nat /\ read' \in 1 .. Len(parsed)
      /\ UNCHANGED lvars /\ phase = "attached" /\ edges' = edges \cup Discover(read')
  BY <1>1 DEF ReadInstruction, Reading
<1>3. PICK ix : ix = read'
  OBVIOUS
<1>4. PICK result : result = IF run.ok THEN Extract(ix) ELSE Nothing
  OBVIOUS
<1>5. /\ tape' = IF result.is = "row" THEN Append(tape, result.row) ELSE tape
      /\ reports' = IF result.is = "refused"
                    THEN Append(reports, [ix |-> ix, error |-> result.error]) ELSE reports
      /\ unread' = IF result.is = "undecoded" THEN unread \cup {ix} ELSE unread
  BY <1>2, <1>3, <1>4, Zenon DEF ReadInstruction
<1>6. \A what \in {"row", "refused", "undecoded"} : Becomes(ix, what) <=> result.is = what
  BY <1>4 DEF Becomes, Nothing
<1>7. run.ok => result = Extract(ix)
  BY <1>4
<1>8. tape' = IF Becomes(ix, "row") THEN Append(tape, Extract(ix).row) ELSE tape
  BY <1>5, <1>6, <1>7 DEF Becomes
<1>9. reports' = IF Becomes(ix, "refused") THEN Append(reports, Report(ix)) ELSE reports
  BY <1>5, <1>6, <1>7 DEF Becomes, Report
<1>10. unread' = unread \cup {i \in {ix} : Becomes(i, "undecoded")}
  BY <1>5, <1>6
<1>. QED BY <1>1, <1>2, <1>3, <1>8, <1>9, <1>10

LEMMA ReadingInductive ==
  ASSUME Family, Reading, ReadInstruction
  PROVE  Reading'
<1>0. /\ read' = read + 1 /\ read \in Nat /\ read' \in 1 .. Len(parsed)
      /\ UNCHANGED lvars /\ phase = "attached" /\ Len(parsed) \in Nat
      /\ edges' = edges \cup Discover(read')
      /\ tape' = IF Becomes(read', "row") THEN Append(tape, Extract(read').row) ELSE tape
      /\ reports' = IF Becomes(read', "refused") THEN Append(reports, Report(read'))
                    ELSE reports
      /\ unread' = unread \cup {i \in {read'} : Becomes(i, "undecoded")}
  BY OneTurn
<1>1. PICK ix : ix = read'
  OBVIOUS
<1>2. /\ parsed' = parsed /\ phase' = phase /\ run' = run
      /\ \A i : Extract(i)' = Extract(i) /\ Discover(i)' = Discover(i)
  BY <1>0, ExtractFrame DEF lvars, runtime, parser
<1>3. \A i, what : Becomes(i, what)' <=> Becomes(i, what)
  BY <1>2 DEF Becomes
<1>4. \A i : Report(i)' = Report(i)
  BY <1>2 DEF Report
<1>5. /\ ix = read + 1 /\ ix \in 1 .. Len(parsed) /\ read \in 0 .. Len(parsed)
      /\ \A i : i \in 1 .. read' <=> i \in 1 .. read \/ i = ix
  <2>1. ix = read + 1 /\ ix \in 1 .. Len(parsed) /\ read \in Nat /\ Len(parsed) \in Nat
    BY <1>0, <1>1
  <2>2. \A i : i \in 1 .. ix <=> i \in 1 .. read \/ i = ix
    BY <2>1
  <2>. QED BY <1>1, <2>1, <2>2
<1>6. TapeIsExtract'
  <2> DEFINE S == {Extract(i).row : i \in 1 .. Len(parsed)}
  <2>1. tape \in Seq(S)
    BY DEF Reading, TapeIsExtract
  <2>2. \A k \in 1 .. Len(tape) : \E i \in 1 .. read :
           tape[k].ix = i /\ Becomes(i, "row") /\ tape[k] = Extract(i).row
    BY DEF Reading, TapeIsExtract
  <2>3. \A m, n \in 1 .. Len(tape) : m < n => tape[m].ix < tape[n].ix
    BY DEF Reading, TapeIsExtract
  <2>4. \A i \in 1 .. read : Becomes(i, "row") => \E k \in 1 .. Len(tape) : tape[k] = Extract(i).row
    BY DEF Reading, TapeIsExtract
  <2>5. SUFFICES /\ tape' \in Seq(S)
                 /\ \A k \in 1 .. Len(tape') :
                       \E i \in 1 .. read \cup {ix} :
                          tape'[k].ix = i /\ Becomes(i, "row") /\ tape'[k] = Extract(i).row
                 /\ \A m, n \in 1 .. Len(tape') : m < n => tape'[m].ix < tape'[n].ix
                 /\ \A i \in 1 .. read \cup {ix} : Becomes(i, "row") =>
                       \E k \in 1 .. Len(tape') : tape'[k] = Extract(i).row
    <3>1. S' = S
      BY <1>2
    <3> HIDE DEF S
    <3>2. \A i : i \in 1 .. read' <=> i \in 1 .. read \cup {ix}
      BY <1>5
    <3>3. tape' \in Seq({Extract(i).row : i \in 1 .. Len(parsed)})'
      BY <2>5, <3>1 DEF S
    <3>4. \A k \in 1 .. Len(tape') :
             \E i \in 1 .. read' :
                tape'[k].ix = i /\ Becomes(i, "row")' /\ tape'[k] = Extract(i)'.row
      BY <1>2, <1>3, <2>5, <3>2
    <3>5. \A i \in 1 .. read' : Becomes(i, "row")' =>
             \E k \in 1 .. Len(tape') : tape'[k] = Extract(i)'.row
      BY <1>2, <1>3, <2>5, <3>2
    <3>. QED BY <2>5, <3>3, <3>4, <3>5 DEF TapeIsExtract
  <2>6. CASE ~Becomes(ix, "row")
    <3>1. tape' = tape
      BY <1>0, <1>1, <2>6
    <3>. QED BY <2>1, <2>2, <2>3, <2>4, <2>6, <3>1
  <2>7. CASE Becomes(ix, "row")
    <3>1. PICK row : row = Extract(ix).row
      OBVIOUS
    <3>2. tape' = Append(tape, row) /\ row \in S
      BY <1>0, <1>1, <1>5, <2>7, <3>1
    <3>3. row.ix = ix
      BY <1>5, <2>7, <3>1, RowIsOwn DEF Becomes, OwnRow
    <3> HIDE DEF S
    <3>4. /\ tape' \in Seq(S) /\ Len(tape') = Len(tape) + 1 /\ Len(tape) \in Nat
          /\ \A k \in 1 .. Len(tape) : tape'[k] = tape[k]
          /\ tape'[Len(tape) + 1] = row
      BY <2>1, <3>2
    <3>5. ASSUME NEW k \in 1 .. Len(tape')
          PROVE  k \in 1 .. Len(tape) \/ (k = Len(tape) + 1)
      BY <3>4
    <3>6. \A k \in 1 .. Len(tape') :
             \E i \in 1 .. read \cup {ix} :
                tape'[k].ix = i /\ Becomes(i, "row") /\ tape'[k] = Extract(i).row
      BY <2>2, <2>7, <3>1, <3>3, <3>4, <3>5
    <3>7. \A m, n \in 1 .. Len(tape') : m < n => tape'[m].ix < tape'[n].ix
      BY <1>0, <1>5, <2>2, <2>3, <3>3, <3>4, <3>5
    <3>8. \A i \in 1 .. read \cup {ix} : Becomes(i, "row") =>
             \E k \in 1 .. Len(tape') : tape'[k] = Extract(i).row
      <4>1. 1 .. Len(tape) \subseteq 1 .. Len(tape') /\ Len(tape) + 1 \in 1 .. Len(tape')
        BY <3>4
      <4>. QED BY <2>4, <3>1, <3>4, <4>1
    <3>. QED BY <3>4, <3>6, <3>7, <3>8
  <2>. QED BY <2>6, <2>7
<1>7. ReportsAreRefusals'
  <2> DEFINE S == {Report(i) : i \in 1 .. Len(parsed)}
  <2>1. reports \in Seq(S)
    BY DEF Reading, ReportsAreRefusals
  <2>2. \A k \in 1 .. Len(reports) : \E i \in 1 .. read :
           Becomes(i, "refused") /\ reports[k] = Report(i)
    BY DEF Reading, ReportsAreRefusals
  <2>4. \A i \in 1 .. read : Becomes(i, "refused") => \E k \in 1 .. Len(reports) : reports[k] = Report(i)
    BY DEF Reading, ReportsAreRefusals
  <2>5. SUFFICES /\ reports' \in Seq(S)
                 /\ \A k \in 1 .. Len(reports') :
                       \E i \in 1 .. read \cup {ix} :
                          Becomes(i, "refused") /\ reports'[k] = Report(i)
                 /\ \A i \in 1 .. read \cup {ix} : Becomes(i, "refused") =>
                       \E k \in 1 .. Len(reports') : reports'[k] = Report(i)
    <3>1. S' = S
      BY <1>2, <1>4
    <3> HIDE DEF S
    <3>2. \A i : i \in 1 .. read' <=> i \in 1 .. read \cup {ix}
      BY <1>5
    <3>3. reports' \in Seq({Report(i) : i \in 1 .. Len(parsed)})'
      BY <2>5, <3>1 DEF S
    <3>4. \A k \in 1 .. Len(reports') :
             \E i \in 1 .. read' : Becomes(i, "refused")' /\ reports'[k] = Report(i)'
      BY <1>3, <1>4, <2>5, <3>2
    <3>5. \A i \in 1 .. read' : Becomes(i, "refused")' =>
             \E k \in 1 .. Len(reports') : reports'[k] = Report(i)'
      BY <1>3, <1>4, <2>5, <3>2
    <3>. QED BY <3>3, <3>4, <3>5 DEF ReportsAreRefusals
  <2>6. CASE ~Becomes(ix, "refused")
    <3>1. reports' = reports
      BY <1>0, <1>1, <2>6
    <3>. QED BY <2>1, <2>2, <2>4, <2>6, <3>1
  <2>7. CASE Becomes(ix, "refused")
    <3>2. reports' = Append(reports, Report(ix)) /\ Report(ix) \in S
      BY <1>0, <1>1, <1>5, <2>7
    <3>3. Report(ix).ix = ix
      BY DEF Report
    <3> HIDE DEF S
    <3>4. /\ reports' \in Seq(S) /\ Len(reports') = Len(reports) + 1 /\ Len(reports) \in Nat
          /\ \A k \in 1 .. Len(reports) : reports'[k] = reports[k]
          /\ reports'[Len(reports) + 1] = Report(ix)
      BY <2>1, <3>2
    <3>5. ASSUME NEW k \in 1 .. Len(reports')
          PROVE  k \in 1 .. Len(reports) \/ (k = Len(reports) + 1)
      BY <3>4
    <3>6. \A k \in 1 .. Len(reports') :
             \E i \in 1 .. read \cup {ix} : Becomes(i, "refused") /\ reports'[k] = Report(i)
      BY <2>2, <2>7, <3>3, <3>4, <3>5
    <3>8. \A i \in 1 .. read \cup {ix} : Becomes(i, "refused") =>
             \E k \in 1 .. Len(reports') : reports'[k] = Report(i)
      <4>1. 1 .. Len(reports) \subseteq 1 .. Len(reports') /\ Len(reports) + 1 \in 1 .. Len(reports')
        BY <3>4
      <4>. QED BY <2>4, <3>4, <4>1
    <3>. QED BY <3>4, <3>6, <3>8
  <2>. QED BY <2>6, <2>7
<1>8. UnreadIsUndecoded'
  <2>1. \A i : i \in unread <=> i \in 1 .. read /\ Becomes(i, "undecoded")
    BY DEF Reading, UnreadIsUndecoded
  <2>2. \A i : i \in unread' <=> i \in 1 .. read' /\ Becomes(i, "undecoded")
    BY <1>0, <1>1, <1>5, <2>1
  <2>3. \A i : i \in unread' <=> i \in 1 .. read' /\ Becomes(i, "undecoded")'
    BY <1>3, <2>2
  <2>. QED BY <2>3 DEF UnreadIsUndecoded
<1>9. EdgesAreDiscovered'
  <2>1. \A i \in 1 .. read : Discover(i) \subseteq edges
    BY DEF Reading, EdgesAreDiscovered
  <2>2. \A i \in 1 .. read' : Discover(i)' \subseteq edges'
    BY <1>0, <1>1, <1>2, <1>5, <2>1
  <2>. QED BY <2>2 DEF EdgesAreDiscovered
<1>10. read' \in 0 .. Len(parsed') /\ (phase' # "attached" => read' = 0)
  BY <1>0, <1>2
<1>. QED BY <1>6, <1>7, <1>8, <1>9, <1>10 DEF Reading

LEMMA ReadingHolds == ESpec => [](Family /\ Reading)
<1> DEFINE Begun == /\ Len(parsed) \in Nat /\ read = 0
                    /\ tape = <<>> /\ reports = <<>> /\ unread = {}
<1>3. Begun => Reading
  BY ReadingBegins
<1>4. Begun' => Reading'
  BY <1>3, PTL
<1>1. Family /\ EInit => Reading
  <2> SUFFICES ASSUME Family, EInit PROVE Reading
    OBVIOUS
  <2>1. Len(parsed) \in Nat
    BY DEF Family, LInv, Types
  <2>. QED BY <2>1, ReadingBegins DEF EInit
<1>2. Family /\ Family' /\ Reading /\ [ENext]_vars => Reading'
  <2> SUFFICES ASSUME Family, Family', Reading, [ENext]_vars PROVE Reading'
    OBVIOUS
  <2>1. CASE LNext /\ UNCHANGED evars
    <3>1. read = 0
      BY <2>1, AttachedIsOver DEF Reading
    <3>2. tape = <<>> /\ reports = <<>> /\ unread = {}
      BY <3>1, NothingRead
    <3>3. read' = 0 /\ tape' = <<>> /\ reports' = <<>> /\ unread' = {}
      BY <2>1, <3>1, <3>2 DEF evars
    <3>4. Types'
      BY DEF Family, LInv
    <3>5. Len(parsed') \in Nat
      BY <3>4 DEF Types
    <3>. QED BY <1>4, <3>3, <3>5
  <2>2. CASE ReadInstruction
    BY <2>2, ReadingInductive
  <2>3. CASE UNCHANGED vars
    <3>1. /\ read' = read /\ tape' = tape /\ reports' = reports /\ unread' = unread
          /\ edges' = edges /\ UNCHANGED lvars
      BY <2>3 DEF vars, evars
    <3>2. /\ parsed' = parsed /\ phase' = phase /\ run' = run
          /\ \A i : Extract(i)' = Extract(i) /\ Discover(i)' = Discover(i)
      BY <3>1, ExtractFrame DEF lvars, runtime, parser
    <3>3. \A i, what : Becomes(i, what)' <=> Becomes(i, what)
      BY <3>2 DEF Becomes
    <3>4. \A i : Report(i)' = Report(i)
      BY <3>2 DEF Report
    <3>5. TapeIsExtract'
      BY <3>1, <3>2, <3>3 DEF Reading, TapeIsExtract
    <3>6. ReportsAreRefusals'
      BY <3>1, <3>2, <3>3, <3>4 DEF Reading, ReportsAreRefusals
    <3>7. UnreadIsUndecoded'
      BY <3>1, <3>3 DEF Reading, UnreadIsUndecoded
    <3>8. EdgesAreDiscovered'
      BY <3>1, <3>2 DEF Reading, EdgesAreDiscovered
    <3>. QED BY <3>1, <3>2, <3>5, <3>6, <3>7, <3>8 DEF Reading
  <2>. QED BY <2>1, <2>2, <2>3 DEF ENext
<1>. QED BY <1>1, <1>2, ExtractionIsAttribution, FamilyHolds, PTL DEF ESpec

-----------------------------------------------------------------------------
(* EventsAreOwn.                                                           *)

\* The row k of the tape is the one its instruction became.
LEMMA TapeFacts ==
  ASSUME Family, Reading, NEW k \in DOMAIN tape
  PROVE  /\ k \in 1 .. Len(tape)
         /\ tape[k].ix \in 1 .. read /\ tape[k].ix \in 1 .. Len(parsed)
         /\ Becomes(tape[k].ix, "row") /\ tape[k] = Extract(tape[k].ix).row
         /\ OwnRow(tape[k].ix, tape[k])
<1>1. k \in 1 .. Len(tape)
  <2> DEFINE S == {Extract(i).row : i \in 1 .. Len(parsed)}
  <2>1. tape \in Seq(S)
    BY DEF Reading, TapeIsExtract
  <2> HIDE DEF S
  <2>. QED BY <2>1
<1>2. PICK i \in 1 .. read : tape[k].ix = i /\ Becomes(i, "row") /\ tape[k] = Extract(i).row
  BY <1>1 DEF Reading, TapeIsExtract
<1>3. i \in 1 .. Len(parsed)
  <2>1. Len(parsed) \in Nat /\ read \in 0 .. Len(parsed)
    BY DEF Family, LInv, Types, Reading
  <2>. QED BY <2>1
<1>. QED BY <1>1, <1>2, <1>3, RowIsOwn DEF Becomes

LEMMA EventsAreOwnThen ==
  ASSUME Family, Reading
  PROVE  EventsAreOwn
<1>1. ASSUME NEW r \in Rows, r.source.via # "none"
      PROVE  Emitter(r.source) = r.of
  <2>1. PICK k \in DOMAIN tape : r = tape[k]
    BY DEF Rows, ToSet
  <2>2. PICK i : i = r.ix
    OBVIOUS
  <2>3. OwnRow(i, r) /\ i \in 1 .. Len(parsed)
    BY <2>1, <2>2, TapeFacts
  <2>. QED BY <1>1, <2>3 DEF OwnRow, Emitter
<1>2. ASSUME NEW m \in DOMAIN tape, NEW n \in DOMAIN tape, m # n, tape[m].source.via # "none"
      PROVE  tape[m].source # tape[n].source
  <2> SUFFICES ASSUME tape[m].source = tape[n].source PROVE FALSE
    OBVIOUS
  <2>1. PICK r : r = tape[m]
    OBVIOUS
  <2>2. PICK q : q = tape[n]
    OBVIOUS
  <2>3. r.ix # q.ix
    <3>1. m \in 1 .. Len(tape) /\ n \in 1 .. Len(tape) /\ m \in Nat /\ n \in Nat
      BY TapeFacts
    <3>2. m < n \/ n < m
      BY <1>2, <3>1
    <3>3. tape[m].ix < tape[n].ix \/ tape[n].ix < tape[m].ix
      BY <3>1, <3>2 DEF Reading, TapeIsExtract
    <3>4. tape[m].ix \in Nat /\ tape[n].ix \in Nat
      BY TapeFacts
    <3>. QED BY <2>1, <2>2, <3>3, <3>4
  <2>4. PICK i : i = r.ix
    OBVIOUS
  <2>5. PICK j : j = q.ix
    OBVIOUS
  <2>6. OwnRow(i, r) /\ OwnRow(j, q) /\ i # j /\ r.source = q.source /\ r.source.via # "none"
    BY <1>2, <2>1, <2>2, <2>3, <2>4, <2>5, TapeFacts
  <2>. QED BY <2>6 DEF OwnRow
<1>. QED BY <1>1, <1>2 DEF EventsAreOwn

(* EventsAreOwn: whatever became of the log stream, the amounts of a row   *)
(* are those of an event that the instruction it is attributed to emitted  *)
(* itself (child_event, find_event_body, resolve_outer_swap), and no event *)
(* is recorded twice.                                                      *)
THEOREM EventsAlwaysOwn == ESpec => []EventsAreOwn
BY ReadingHolds, EventsAreOwnThen, PTL

-----------------------------------------------------------------------------
(* What it takes for try_extract to refuse nothing.                        *)
LEMMA HoldingFacts ==
  ASSUME NEW i, NEW recipe, recipe = Recipes[Program(i)][Data(i).op]
  PROVE  Holding(i) = {} <=>
            /\ ~(recipe.required /\ ChildEvent(i, recipe.event).is = "missing")
            /\ ChildEvent(i, recipe.event).is # "undecodable"
            /\ ~LayoutFails(i)
            /\ ~(recipe.checked /\ Disagree(i, ChildEvent(i, recipe.event)))
            /\ ~(recipe.fills /\ ChildEvent(i, "Complete").is = "undecodable")
<1> DEFINE h1 == recipe.required /\ ChildEvent(i, recipe.event).is = "missing"
           h2 == ChildEvent(i, recipe.event).is = "undecodable"
           h3 == LayoutFails(i)
           h4 == recipe.checked /\ Disagree(i, ChildEvent(i, recipe.event))
           h5 == recipe.fills /\ ChildEvent(i, "Complete").is = "undecodable"
<1>1. Refusals(i) = <<[error |-> "event_missing",     holds |-> h1],
                      [error |-> "event_undecodable", holds |-> h2],
                      [error |-> "account_layout",    holds |-> h3],
                      [error |-> "corroboration",     holds |-> h4],
                      [error |-> "event_undecodable", holds |-> h5]>>
  BY DEF Refusals
<1>2. /\ h1 \in BOOLEAN /\ h2 \in BOOLEAN /\ h3 \in BOOLEAN /\ h4 \in BOOLEAN /\ h5 \in BOOLEAN
  BY DEF LayoutFails
<1> HIDE DEF h1, h2, h3, h4, h5
<1>3. /\ DOMAIN Refusals(i) = 1 .. 5
      /\ Refusals(i)[1].holds = h1 /\ Refusals(i)[2].holds = h2 /\ Refusals(i)[3].holds = h3
      /\ Refusals(i)[4].holds = h4 /\ Refusals(i)[5].holds = h5
  BY <1>1
<1>4. Holding(i) = {} <=> ~h1 /\ ~h2 /\ ~h3 /\ ~h4 /\ ~h5
  <2>1. \A n \in 1 .. 5 : n = 1 \/ n = 2 \/ n = 3 \/ n = 4 \/ n = 5
    OBVIOUS
  <2>2. Holding(i) = {} <=> \A n \in 1 .. 5 : ~Refusals(i)[n].holds
    BY <1>3 DEF Holding
  <2>3. (\A n \in 1 .. 5 : ~Refusals(i)[n].holds) <=>
           /\ ~Refusals(i)[1].holds /\ ~Refusals(i)[2].holds /\ ~Refusals(i)[3].holds
           /\ ~Refusals(i)[4].holds /\ ~Refusals(i)[5].holds
    BY <2>1
  <2>. QED BY <1>2, <1>3, <2>2, <2>3
<1>. QED BY <1>4 DEF h1, h2, h3, h4, h5

LEMMA RecipeFacts ==
  ASSUME NEW program \in {"pumpfun", "pumpswap"}
  PROVE  /\ "buy" \in DOMAIN Recipes[program]
         /\ Recipes[program].buy.required = TRUE
         /\ program = "pumpfun" => Recipes[program].buy.fills = TRUE
         /\ program = "pumpfun" => \A op \in DOMAIN Recipes[program] :
               Recipes[program][op].kind = "Swap" => op = "buy"
BY DEF Recipes, PumpfunRecipes, PumpSwapRecipes, Recipe

LEMMA CallsSurviveThen ==
  ASSUME Family, Reading
  PROVE  CallsSurviveTheStream
<1> SUFFICES ASSUME Done, run.heights, NEW i \in DOMAIN parsed, SoundSwap(i)
             PROVE  /\ Data(i).pool \in edges
                    /\ run.ok => \E r \in Rows : r.ix = i
  BY DEF CallsSurviveTheStream
<1>1. /\ DOMAIN parsed = 1 .. Len(parsed) /\ i \in 1 .. Len(parsed)
      /\ DOMAIN list = 1 .. Len(parsed) /\ read = Len(parsed) /\ i \in 1 .. read
  <2>1. phase = "attached" /\ read = Len(parsed) /\ Len(parsed) = Len(list)
    BY DEF Done, Family, LInv, ParsedFaithfully
  <2>2. DOMAIN parsed = 1 .. Len(parsed) /\ DOMAIN list = 1 .. Len(list)
    BY DEF Family, LInv, Types
  <2>. QED BY <2>1, <2>2
<1>2. /\ Program(i) \in {"pumpfun", "pumpswap"} /\ Data(i).op = "buy" /\ Data(i).pool # NoPool
      /\ ~IsEvent(i)
  BY DEF SoundSwap, IsEvent
<1>3. Data(i).pool \in edges
  BY <1>1, <1>2 DEF Discover, Reading, EdgesAreDiscovered
<1>4. PICK recipe : recipe = Recipes[Program(i)][Data(i).op]
  OBVIOUS
<1>5. /\ Data(i).op \in DOMAIN Recipes[Program(i)]
      /\ recipe = Recipes[Program(i)].buy
  BY <1>2, <1>4, RecipeFacts
<1>6. ChildEvent(i, recipe.event).is = "decoded" /\ ChildEvent(i, recipe.event).pool = Data(i).pool
  <2>1. PICK c \in 1 .. Len(parsed) :
           list[c].caller = i /\ IsEvent(c) /\ Data(c).event = recipe.event
    BY <1>1, <1>5 DEF SoundSwap
  <2>2. Carriers(i, recipe.event) # {}
    BY <1>1, <2>1, CarrierFacts
  <2>3. PICK d \in Carriers(i, recipe.event) :
           /\ ChildEvent(i, recipe.event).is = (IF Data(d).good THEN "decoded" ELSE "undecodable")
           /\ ChildEvent(i, recipe.event).pool = Data(d).pool
    BY <1>1, <2>2, ChildEventFacts
  <2>4. d \in DOMAIN list /\ list[d].caller = i /\ IsEvent(d)
    BY <1>1, CarrierFacts
  <2>5. Data(d).good /\ Data(d).pool = Data(i).pool
    BY <2>4 DEF SoundSwap
  <2>. QED BY <2>3, <2>5
<1>7. ChildEvent(i, "Complete").is # "undecodable"
  <2>1. CASE \E c \in Carriers(i, "Complete") :
               ChildEvent(i, "Complete").is = (IF Data(c).good THEN "decoded" ELSE "undecodable")
    <3>1. PICK c \in Carriers(i, "Complete") :
             ChildEvent(i, "Complete").is = (IF Data(c).good THEN "decoded" ELSE "undecodable")
      BY <2>1
    <3>2. c \in DOMAIN list /\ list[c].caller = i /\ IsEvent(c)
      BY <1>1, CarrierFacts
    <3>3. Data(c).good
      BY <3>2 DEF SoundSwap
    <3>. QED BY <3>1, <3>3
  <2>2. CASE \E k \in Logged(i, "Complete") :
               ChildEvent(i, "Complete").is =
                  (IF stream[Slice(i)[k]].note.good THEN "decoded" ELSE "undecodable")
    <3>1. PICK k \in Logged(i, "Complete") :
             ChildEvent(i, "Complete").is =
                  (IF stream[Slice(i)[k]].note.good THEN "decoded" ELSE "undecodable")
      BY <2>2
    <3>2. /\ Slice(i)[k] \in DOMAIN stream /\ stream[Slice(i)[k]].by = i
          /\ stream[Slice(i)[k]].note.tag = "data"
      BY <1>1, LoggedFacts
    <3>3. stream[Slice(i)[k]].note.good
      BY <3>2 DEF SoundSwap
    <3>. QED BY <3>1, <3>3
  <2>3. CASE ChildEvent(i, "Complete").is = "missing"
    BY <2>3
  <2>. QED BY <1>1, <2>1, <2>2, <2>3, ChildEventFacts
<1>8. Holding(i) = {}
  <2>1. ~LayoutFails(i) /\ ~Disagree(i, ChildEvent(i, recipe.event))
    BY <1>2, <1>6 DEF LayoutFails, Disagree
  <2>. QED BY <1>4, <1>6, <1>7, <2>1, HoldingFacts
<1>9. Extract(i).is = "row"
  <2>1. PICK done : Extract(i) = RowFrom(i, ChildEvent(i, recipe.event), done)
    BY <1>2, <1>4, <1>5, <1>8, PumpCases
  <2>. QED BY <2>1 DEF RowFrom, Row
<1>10. ASSUME run.ok PROVE \E r \in Rows : r.ix = i
  <2>1. PICK k \in 1 .. Len(tape) : tape[k] = Extract(i).row
    BY <1>1, <1>9, <1>10 DEF Reading, TapeIsExtract, Becomes
  <2>2. Extract(i).row.ix = i
    BY <1>1, <1>9, RowIsOwn DEF OwnRow
  <2>3. k \in DOMAIN tape
    <3> DEFINE S == {Extract(j).row : j \in 1 .. Len(parsed)}
    <3>1. tape \in Seq(S)
      BY DEF Reading, TapeIsExtract
    <3> HIDE DEF S
    <3>. QED BY <3>1
  <2>. QED BY <2>1, <2>2, <2>3 DEF Rows, ToSet
<1>. QED BY <1>3, <1>10

(* CallsSurviveTheStream: a swap whose event was emitted by a call reaches *)
(* the tape whatever happened to the log stream (child_event looks there   *)
(* only when there is no such call), and its pool is discovered even when  *)
(* the transaction failed (discover).                                      *)
THEOREM CallsAlwaysSurviveTheStream == ESpec => []CallsSurviveTheStream
BY ReadingHolds, CallsSurviveThen, PTL

-----------------------------------------------------------------------------
(* NothingIsSwallowed.                                                     *)

\* The rows attributed to an instruction of the pump programs: its own, if it
\* became one.
LEMMA RowsOfPump ==
  ASSUME Family, Reading, NEW i \in 1 .. read, Program(i) \in {"pumpfun", "pumpswap"}
  PROVE  {r \in Rows : r.of = i} = IF Becomes(i, "row") THEN {Extract(i).row} ELSE {}
<1>1. i \in 1 .. Len(parsed)
  BY DEF Reading, Family, LInv, Types
<1>2. ASSUME NEW r \in Rows, r.of = i
      PROVE  Becomes(i, "row") /\ r = Extract(i).row
  <2>1. PICK k \in DOMAIN tape : r = tape[k]
    BY DEF Rows, ToSet
  <2>2. PICK j : j = r.ix
    OBVIOUS
  <2>3. OwnRow(j, r) /\ Becomes(j, "row") /\ r = Extract(j).row
    BY <2>1, <2>2, TapeFacts
  <2>4. j = i
    BY <1>2, <2>3 DEF OwnRow
  <2>. QED BY <2>3, <2>4
<1>3. ASSUME Becomes(i, "row")
      PROVE  Extract(i).row \in Rows /\ Extract(i).row.of = i
  <2>1. PICK k \in 1 .. Len(tape) : tape[k] = Extract(i).row
    BY <1>3 DEF Reading, TapeIsExtract
  <2>2. k \in DOMAIN tape
    <3> DEFINE S == {Extract(j).row : j \in 1 .. Len(parsed)}
    <3>1. tape \in Seq(S)
      BY DEF Reading, TapeIsExtract
    <3> HIDE DEF S
    <3>. QED BY <3>1
  <2>3. OwnRow(i, Extract(i).row)
    BY <1>1, <1>3, RowIsOwn DEF Becomes
  <2>4. PICK row : row = Extract(i).row
    OBVIOUS
  <2>5. row.of = i
    BY <2>3, <2>4 DEF OwnRow
  <2>. QED BY <2>1, <2>2, <2>4, <2>5 DEF Rows, ToSet
<1>4. CASE Becomes(i, "row")
  BY <1>2, <1>3, <1>4
<1>5. CASE ~Becomes(i, "row")
  BY <1>2, <1>5
<1>. QED BY <1>4, <1>5

LEMMA ReportsOf ==
  ASSUME Family, Reading, NEW i \in 1 .. read
  PROVE  {f \in ToSet(reports) : f.ix = i} = IF Becomes(i, "refused") THEN {Report(i)} ELSE {}
<1>0. DOMAIN reports = 1 .. Len(reports)
  <2> DEFINE S == {Report(j) : j \in 1 .. Len(parsed)}
  <2>1. reports \in Seq(S)
    BY DEF Reading, ReportsAreRefusals
  <2> HIDE DEF S
  <2>. QED BY <2>1
<1>1. \A j : Report(j).ix = j
  BY DEF Report
<1>2. ASSUME NEW f \in ToSet(reports), f.ix = i
      PROVE  Becomes(i, "refused") /\ f = Report(i)
  <2>1. PICK k \in 1 .. Len(reports) : f = reports[k]
    BY <1>0 DEF ToSet
  <2>2. PICK j \in 1 .. read : Becomes(j, "refused") /\ reports[k] = Report(j)
    BY DEF Reading, ReportsAreRefusals
  <2>. QED BY <1>1, <1>2, <2>1, <2>2
<1>3. ASSUME Becomes(i, "refused")
      PROVE  Report(i) \in ToSet(reports)
  BY <1>0, <1>3 DEF Reading, ReportsAreRefusals, ToSet
<1>4. CASE Becomes(i, "refused")
  BY <1>1, <1>2, <1>3, <1>4
<1>5. CASE ~Becomes(i, "refused")
  BY <1>2, <1>5
<1>. QED BY <1>4, <1>5

LEMMA NothingSwallowedThen ==
  ASSUME Family, Reading
  PROVE  NothingIsSwallowed
<1> SUFFICES ASSUME Done, run.ok, NEW i \in DOMAIN parsed,
                    Program(i) \in {"pumpfun", "pumpswap"}, ~IsEvent(i)
             PROVE  Cardinality({r \in Rows : r.of = i})
                      + Cardinality({f \in ToSet(reports) : f.ix = i})
                      + (IF i \in unread THEN 1 ELSE 0) = 1
  BY DEF NothingIsSwallowed
<1>1. i \in 1 .. read
  BY DEF Done, Family, LInv, Types
<1>2. i \in unread <=> Becomes(i, "undecoded")
  BY <1>1 DEF Reading, UnreadIsUndecoded
<1>3. Cardinality({r \in Rows : r.of = i}) = IF Becomes(i, "row") THEN 1 ELSE 0
  BY <1>1, RowsOfPump, FS_EmptySet, FS_Singleton
<1>4. Cardinality({f \in ToSet(reports) : f.ix = i}) = IF Becomes(i, "refused") THEN 1 ELSE 0
  BY <1>1, ReportsOf, FS_EmptySet, FS_Singleton
<1>5. Extract(i).is \in {"row", "refused", "undecoded"}
  <2>1. CASE Data(i).op \notin DOMAIN Recipes[Program(i)]
    BY <2>1, PumpCases DEF Undecoded
  <2>2. CASE Data(i).op \in DOMAIN Recipes[Program(i)] /\ Holding(i) # {}
    BY <2>2, PumpCases DEF Refused
  <2>3. CASE Data(i).op \in DOMAIN Recipes[Program(i)] /\ Holding(i) = {}
    <3>1. PICK event, done : Extract(i) = RowFrom(i, event, done)
      BY <2>3, PumpCases
    <3>. QED BY <3>1 DEF RowFrom, Row
  <2>. QED BY <2>1, <2>2, <2>3
<1>6. CASE Extract(i).is = "row"
  BY <1>2, <1>3, <1>4, <1>6 DEF Becomes
<1>7. CASE Extract(i).is = "refused"
  BY <1>2, <1>3, <1>4, <1>7 DEF Becomes
<1>8. CASE Extract(i).is = "undecoded"
  BY <1>2, <1>3, <1>4, <1>8 DEF Becomes
<1>. QED BY <1>5, <1>6, <1>7, <1>8

(* NothingIsSwallowed, "reported, never swallowed": each instruction of   *)
(* the pump programs that is no event ends up as one row, as one report of *)
(* report_extract_failure, or with undecoded::report, and in one place     *)
(* only (try_extract).                                                     *)
THEOREM NothingIsEverSwallowed == ESpec => []NothingIsSwallowed
BY ReadingHolds, NothingSwallowedThen, PTL

-----------------------------------------------------------------------------
(* CompletionIsOwn.                                                        *)

LEMMA CompletionFacts ==
  ASSUME Family, phase = "attached", NEW i \in 1 .. Len(parsed)
  PROVE  Completions(i) # {} <=> Carriers(i, "Complete") # {} \/ Logged(i, "Complete") # {}
<1>1. DOMAIN list = 1 .. Len(parsed)
  BY DEF Family, LInv, Types, ParsedFaithfully
<1>2. ASSUME NEW c \in Completions(i)
      PROVE  Carriers(i, "Complete") # {} \/ Logged(i, "Complete") # {}
  <2>1. CASE c \in DOMAIN list /\ run.heights /\ IsEvent(c) /\ Data(c).event = "Complete"
             /\ list[c].caller = i
    BY <1>1, <2>1, CarrierFacts
  <2>2. CASE /\ c \in ToSet(Slice(i)) /\ c # Marker
             /\ stream[c].note.tag = "data" /\ stream[c].note.event = "Complete"
    <3>1. PICK k \in DOMAIN Slice(i) : Slice(i)[k] = c
      BY <2>2 DEF ToSet
    <3>2. k \in Logged(i, "Complete")
      BY <2>2, <3>1 DEF Logged
    <3>. QED BY <3>2
  <2>. QED BY <2>1, <2>2 DEF Completions
<1>3. ASSUME NEW c \in Carriers(i, "Complete") PROVE c \in Completions(i)
  <2>1. /\ c \in DOMAIN list /\ run.heights /\ IsEvent(c) /\ Data(c).event = "Complete"
        /\ list[c].caller = i
    BY <1>1, CarrierFacts
  <2>. QED BY <2>1 DEF Completions
<1>4. ASSUME NEW k \in Logged(i, "Complete") PROVE Slice(i)[k] \in Completions(i)
  <2>1. PICK c : c = Slice(i)[k]
    OBVIOUS
  <2>2. /\ c \in ToSet(Slice(i)) /\ c # Marker
        /\ stream[c].note.tag = "data" /\ stream[c].note.event = "Complete"
    BY <2>1, LoggedFacts DEF ToSet
  <2>. QED BY <2>1, <2>2 DEF Completions
<1>. QED BY <1>2, <1>3, <1>4

LEMMA CompletionOwnThen ==
  ASSUME Family, Reading
  PROVE  CompletionIsOwn
<1> SUFFICES ASSUME NEW r \in Rows, Program(r.ix) = "pumpfun", r.kind = "Swap"
             PROVE  r.completed <=> Completions(r.ix) # {}
  BY DEF CompletionIsOwn
<1>1. PICK k \in DOMAIN tape : r = tape[k]
  BY DEF Rows, ToSet
<1>2. PICK i : i = r.ix
  OBVIOUS
<1>3. i \in 1 .. read /\ i \in 1 .. Len(parsed) /\ Extract(i).is = "row" /\ r = Extract(i).row
  BY <1>1, <1>2, TapeFacts DEF Becomes
<1>4. phase = "attached"
  BY <1>3 DEF Reading
<1>5. Program(i) = "pumpfun"
  BY <1>2
<1>6. PICK recipe : recipe = Recipes[Program(i)][Data(i).op]
  OBVIOUS
<1>7. /\ Data(i).op \in DOMAIN Recipes[Program(i)] /\ Holding(i) = {}
      /\ r.kind = recipe.kind
      /\ r.completed <=> recipe.fills /\ ChildEvent(i, "Complete").is = "decoded"
  BY <1>3, <1>5, <1>6, PumpRow
<1>8. recipe.fills = TRUE
  BY <1>5, <1>6, <1>7, RecipeFacts
<1>9. ChildEvent(i, "Complete").is # "undecodable"
  BY <1>6, <1>7, <1>8, HoldingFacts
<1>10. ChildEvent(i, "Complete").is = "decoded"
         <=> Carriers(i, "Complete") # {} \/ Logged(i, "Complete") # {}
  BY <1>3, <1>9, ChildEventFacts
<1>. QED BY <1>2, <1>3, <1>4, <1>7, <1>8, <1>10, CompletionFacts

(* CompletionIsOwn: a trade is marked as the one that filled the curve     *)
(* exactly when it emitted the completion itself, by a call or in a line   *)
(* that attach_logs gave to it (swap_via).                                 *)
THEOREM CompletionAlwaysOwn == ESpec => []CompletionIsOwn
BY ReadingHolds, CompletionOwnThen, PTL
=============================================================================
