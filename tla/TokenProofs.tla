---------------------------- MODULE TokenProofs ----------------------------
(***************************************************************************)
(* What commands that run over one config file can lose of it, for any      *)
(* number of commands.                                                      *)
(***************************************************************************)
EXTENDS TokenStore, TLAPS

Writing(p) == pc[p] \in {"authing", "saving"}

\* A registration that has stored its token, without another writer beside it.
Stored(r) == r \in Registers /\ pc[r] = "done" /\ ~Contended(r)

\* Commands that run now have seen each other, and each saw the other.
SharedInv ==
  \A p, q \in Cmds :
    /\ p # q /\ pc[p] \in Running /\ pc[q] \in Running => q \in shared[p]
    /\ pc[p] = "start" => p \notin shared[q] /\ shared[p] = {}
    /\ q \in before[p] => pc[p] # "start" /\ pc[q] \in Ended

\* A stored token is in the file, and in every Config from which it could be
\* written back: who loaded the file earlier ran beside the registration.
TokenInv ==
  \A r \in Cmds : Stored(r) =>
    /\ file # "absent"
    /\ file = "json" => NodeOf[r] \in tokens
    /\ \A p \in Cmds :
         /\ pc[p] \in Running /\ p # r /\ p \notin shared[r] => NodeOf[r] \in cfg[p]
         /\ pc[p] \in Running \cup {"denied"} /\ r \in before[p] => NodeOf[r] \in cfg[p]

\* Who is about to write finds the file as it left it, or ran beside a writer.
FileInv ==
  /\ ReadableUnlessTorn
  /\ \A p \in Cmds : Writing(p) /\ file # "empty" => Contended(p)
  /\ \A p \in Cmds : pc[p] = "denied" => NodeOf[p] \notin cfg[p]

IInv == TypeOK /\ SharedInv /\ TokenInv /\ FileInv

-----------------------------------------------------------------------------
(* The first state *)

LEMMA InitInv == Init => IInv
<1>. SUFFICES ASSUME Init PROVE IInv
  OBVIOUS
<1>. USE DEF Init, Running, Ended
<1>1. TypeOK
  BY CmdsAssumption, KillsAssumption DEF TypeOK
<1>2. SharedInv
  BY DEF SharedInv
<1>3. TokenInv
  BY DEF TokenInv, Stored
<1>4. FileInv
  BY DEF FileInv, ReadableUnlessTorn, Writing
<1>. QED BY <1>1, <1>2, <1>3, <1>4 DEF IInv

-----------------------------------------------------------------------------
(* What all steps but Load have in common: one running command moves on *)

Moves(p, l) ==
  /\ pc[p] \in Running /\ l \in Running \cup Ended
  /\ Goto(p, l)
  /\ UNCHANGED history

LEMMA MoveShared ==
  ASSUME IInv, NEW p \in Cmds, NEW l, Moves(p, l)
  PROVE  /\ SharedInv'
         /\ \A q \in Cmds : Contended(q)' <=> Contended(q)
         /\ \A q \in Cmds : q # p => pc'[q] = pc[q]
         /\ pc'[p] = l
<1>. USE DEF Moves, Goto, history, IInv, TypeOK
<1>1. \A q \in Cmds : pc'[q] = IF q = p THEN l ELSE pc[q]
  OBVIOUS
<1>2. /\ pc[p] # "start" /\ l # "start"
      /\ pc[p] \notin Ended
  BY DEF Running, Ended
<1>3. SharedInv'
  BY <1>1, <1>2 DEF SharedInv
<1>4. \A q \in Cmds : Contended(q)' <=> Contended(q)
  BY DEF Contended
<1>. QED BY <1>1, <1>3, <1>4

\* A command that neither ends well nor touches the file, and forgets no token.
LEMMA MoveInv ==
  ASSUME IInv, NEW p \in Cmds, NEW l, Moves(p, l),
         l \notin {"authing", "saving"},
         p \in Registers => l # "done",
         l = "denied" => NodeOf[p] \notin cfg'[p],
         UNCHANGED disk, kills' \in {kills, kills + 1},
         Writing(p) => kills' = kills + 1,
         \A q \in Cmds : q # p => cfg'[q] = cfg[q],
         cfg[p] \subseteq cfg'[p],
         TypeOK'
  PROVE  IInv'
<1>. USE MoveShared DEF disk, Moves, history
<1>. DEFINE C(q) == Contended(q)
<1>0. TypeOK
  BY DEF IInv
<1>1. \A r \in Cmds : Stored(r)' => Stored(r) /\ r # p
  BY DEF Stored
<1>2. \A q \in Cmds : pc'[q] \in Running \cup {"denied"} => pc[q] \in Running \cup {"denied"}
  BY DEF Running, Ended
<1>3. \A q \in Cmds : pc'[q] \in Running => pc[q] \in Running
  BY DEF Running, Ended
<1>4. \A q \in Cmds : cfg[q] \subseteq cfg'[q]
  BY DEF IInv, TypeOK
<1>5. TokenInv'
  <2>. SUFFICES ASSUME NEW r \in Cmds, Stored(r)'
       PROVE  /\ file # "absent"
              /\ file = "json" => NodeOf[r] \in tokens
              /\ \A q \in Cmds :
                   /\ pc'[q] \in Running /\ q # r /\ q \notin shared[r] => NodeOf[r] \in cfg'[q]
                   /\ pc'[q] \in Running \cup {"denied"} /\ r \in before[q]
                        => NodeOf[r] \in cfg'[q]
    BY DEF TokenInv
  <2>1. Stored(r)
    BY <1>1
  <2>. QED BY <2>1, <1>2, <1>3, <1>4 DEF IInv, TokenInv
<1>6. \A q \in Cmds : Writing(q)' => Writing(q) /\ q # p
  BY DEF Writing
<1>7. \A q \in Cmds : q # p => (Writing(q) <=> Writing(q)')
  BY DEF Writing
<1>8. kills \in Nat /\ kills' \in Nat
  BY <1>0, KillsAssumption DEF TypeOK
<1>9. ReadableUnlessTorn'
  <2>1. file = "empty" => (\E q \in Cmds : Writing(q)') \/ kills' > 0
    <3>1. CASE kills' = kills + 1
      BY <3>1, <1>8
    <3>2. CASE kills' = kills
      BY <3>2, <1>7, <1>8 DEF IInv, FileInv, ReadableUnlessTorn, Writing
    <3>. QED BY <3>1, <3>2
  <2>2. file = "torn" => Clashed'
    BY DEF IInv, FileInv, ReadableUnlessTorn, Clashed, Saving
  <2>. QED BY <2>1, <2>2 DEF ReadableUnlessTorn, Writing
<1>10. FileInv'
  <2>1. \A q \in Cmds : Writing(q)' /\ file # "empty" => Contended(q)'
    BY <1>6 DEF IInv, FileInv
  <2>2. \A q \in Cmds : pc'[q] = "denied" => NodeOf[q] \notin cfg'[q]
    BY DEF IInv, FileInv
  <2>. QED BY <1>9, <2>1, <2>2 DEF FileInv
<1>. QED BY <1>5, <1>10, MoveShared DEF IInv

-----------------------------------------------------------------------------
(* One lemma per action *)

LEMMA WriteFailsInv == ASSUME IInv, NEW p \in Cmds, WriteFails(p) PROVE IInv'
<1>1. Moves(p, "failed")
  BY DEF WriteFails, Moves, Running, Ended
<1>2. TypeOK'
  BY DEF IInv, TypeOK, WriteFails, Goto, Ended, Running, disk, history
<1>. QED BY <1>1, <1>2, MoveInv DEF WriteFails, Writing

LEMMA AskInv == ASSUME IInv, NEW p \in Cmds, Ask(p) PROVE IInv'
<1>1. Moves(p, "called")
  BY DEF Ask, Moves, Running, Ended
<1>2. TypeOK'
  BY DEF IInv, TypeOK, Ask, Goto, Ended, Running, disk, history
<1>. QED BY <1>1, <1>2, MoveInv DEF Ask, Writing

LEMMA GrantedInv == ASSUME IInv, NEW p \in Cmds, Granted(p) PROVE IInv'
<1>. USE CmdsAssumption
<1>1. Moves(p, "save")
  BY DEF Granted, Moves, Running, Ended
<1>2. TypeOK'
  <2>1. /\ known' \in SUBSET Nodes
        /\ cfg' \in [Cmds -> SUBSET Nodes]
        /\ \A q \in Cmds : cfg[q] \subseteq cfg'[q]
        /\ NodeOf[p] \in cfg'[p]
    <3>1. NodeOf[p] \in Nodes
      OBVIOUS
    <3>. HIDE CmdsAssumption
    <3>2. \A q \in Cmds : cfg'[q] = IF q = p THEN cfg[p] \cup {NodeOf[p]} ELSE cfg[q]
      BY DEF IInv, TypeOK, Granted
    <3>. QED BY <3>1, <3>2 DEF IInv, TypeOK, Granted
  <2>2. pc' \in [Cmds -> {"start"} \cup Running \cup Ended]
    BY DEF IInv, TypeOK, Granted, Goto, Running
  <2>3. \A q \in Cmds : pc'[q] = IF q = p THEN "save" ELSE pc[q]
    BY DEF IInv, TypeOK, Granted, Goto
  <2>4. p \in Registers
    BY DEF IInv, TypeOK, Granted
  <2>. QED BY <2>1, <2>2, <2>3, <2>4 DEF IInv, TypeOK, Granted, disk, history
<1>3. /\ cfg[p] \subseteq cfg'[p]
      /\ \A q \in Cmds : q # p => cfg'[q] = cfg[q]
  BY DEF IInv, TypeOK, Granted
<1>. QED BY <1>1, <1>2, <1>3, MoveInv DEF Granted, Writing

LEMMA RefusedInv == ASSUME IInv, NEW p \in Cmds, Refused(p) PROVE IInv'
<1>. USE CmdsAssumption
<1>1. Moves(p, "failed")
  BY DEF Refused, Moves, Running, Ended
<1>2. TypeOK'
  <2>1. known' \in SUBSET Nodes
    BY DEF IInv, TypeOK, Refused
  <2>2. pc' \in [Cmds -> {"start"} \cup Running \cup Ended]
    BY DEF IInv, TypeOK, Refused, Goto, Ended
  <2>3. \A q \in Cmds : pc'[q] = IF q = p THEN "failed" ELSE pc[q]
    BY DEF IInv, TypeOK, Refused, Goto
  <2>. QED BY <2>1, <2>2, <2>3 DEF IInv, TypeOK, Refused, disk, history
<1>. QED BY <1>1, <1>2, MoveInv DEF Refused, Writing

LEMMA UseInv == ASSUME IInv, NEW p \in Cmds, Use(p) PROVE IInv'
<1>. DEFINE l == IF NodeOf[p] \in cfg[p] THEN "done" ELSE "denied"
<1>1. Moves(p, l)
  BY DEF Use, Moves, Running, Ended
<1>2. TypeOK'
  BY DEF IInv, TypeOK, Use, Goto, Ended, Running, disk, history
<1>. QED BY <1>1, <1>2, MoveInv DEF Use, Writing

LEMMA KillInv == ASSUME IInv, NEW p \in Cmds, Kill(p) PROVE IInv'
<1>1. Moves(p, "killed")
  BY DEF Kill, Moves, Running, Ended
<1>2. TypeOK'
  BY KillsAssumption DEF IInv, TypeOK, Kill, Goto, Ended, Running, disk, history
<1>. QED BY <1>1, <1>2, MoveInv DEF Kill, Writing

LEMMA TruncateInv == ASSUME IInv, NEW p \in Cmds, Truncate(p) PROVE IInv'
<1>. DEFINE l == IF pc[p] = "auth" THEN "authing" ELSE "saving"
<1>1. Moves(p, l)
  BY DEF Truncate, Moves, Running, Ended
<1>2. TypeOK'
  BY DEF IInv, TypeOK, Truncate, Goto, Ended, Running, history
<1>3. file' = "empty" /\ cfg' = cfg /\ UNCHANGED history
  BY DEF Truncate
<1>. USE <1>1, MoveShared
<1>4. TokenInv'
  <2>1. \A r \in Cmds : Stored(r)' => Stored(r)
    BY DEF Stored
  <2>2. \A q \in Cmds : /\ pc'[q] \in Running => pc[q] \in Running
                        /\ pc'[q] = "denied" => pc[q] = "denied"
    BY DEF Moves
  <2>. QED BY <2>1, <2>2, <1>3 DEF IInv, TokenInv, history
<1>5. FileInv'
  <2>1. l \in {"authing", "saving"}
    OBVIOUS
  <2>2. ReadableUnlessTorn'
    BY <1>3, <2>1 DEF ReadableUnlessTorn
  <2>. QED BY <1>3, <2>2 DEF IInv, FileInv
<1>. QED BY <1>2, <1>4, <1>5 DEF IInv

LEMMA WriteInv == ASSUME IInv, NEW p \in Cmds, Write(p) PROVE IInv'
<1>. DEFINE l == IF pc[p] = "authing" THEN "ready" ELSE "done"
<1>0. TypeOK /\ Writing(p) /\ pc[p] \in Running
  BY DEF IInv, Write, Writing, Running
<1>1. Moves(p, l)
  BY DEF Write, Moves, Running, Ended
<1>2. TypeOK'
  BY DEF IInv, TypeOK, Write, Text, Goto, Ended, Running, history
<1>3. /\ cfg' = cfg /\ UNCHANGED history /\ file' \in {"json", "torn"}
      /\ file' = "json" => tokens' = cfg[p]
      /\ file' = "torn" => file # "empty" \/ file = "torn"
  BY DEF Write, Text
<1>. USE <1>1, MoveShared
<1>4. Saving(p)
  BY <1>0 DEF Saving, Writing, TypeOK
<1>5. \A q \in Cmds : q # p /\ pc[q] \in Running => Contended(q)
  BY <1>0, <1>4 DEF Contended, IInv, SharedInv
<1>6. TokenInv'
  <2>. SUFFICES ASSUME NEW r \in Cmds, Stored(r)'
       PROVE  /\ file' # "absent"
              /\ file' = "json" => NodeOf[r] \in tokens'
              /\ \A q \in Cmds :
                   /\ pc'[q] \in Running /\ q # r /\ q \notin shared'[r]
                        => NodeOf[r] \in cfg'[q]
                   /\ pc'[q] \in Running \cup {"denied"} /\ r \in before'[q]
                        => NodeOf[r] \in cfg'[q]
    BY DEF TokenInv
  <2>1. \A q \in Cmds : /\ pc'[q] \in Running => pc[q] \in Running
                        /\ pc'[q] = "denied" => pc[q] = "denied"
    BY DEF Moves
  <2>2. CASE r = p
    <3>1. pc[p] = "saving" /\ ~Contended(p) /\ NodeOf[p] \in cfg[p]
      BY <2>2, <1>0 DEF Stored, TypeOK, Writing
    <3>2. \A q \in Cmds : pc[q] \in Running /\ q # p => q \in shared[p]
      BY <1>0 DEF IInv, SharedInv
    <3>3. \A q \in Cmds : p \notin before[q]
      BY <1>0 DEF IInv, SharedInv, Running, Ended
    <3>. QED BY <3>1, <3>2, <3>3, <2>1, <2>2, <1>3 DEF history, Running
  <2>3. CASE r # p
    <3>1. Stored(r)
      BY <2>3 DEF Stored
    <3>2. p \notin shared[r]
      BY <3>1, <2>3, <1>4 DEF Stored, Contended
    <3>3. NodeOf[r] \in cfg[p]
      BY <3>1, <3>2, <2>3, <1>0 DEF IInv, TokenInv
    <3>. QED BY <3>1, <3>3, <2>1, <1>3 DEF IInv, TokenInv, history
  <2>. QED BY <2>2, <2>3
<1>7. file' = "torn" => Clashed'
  BY <1>0, <1>3, <1>4 DEF IInv, FileInv, ReadableUnlessTorn, Clashed, Saving
<1>8. \A q \in Cmds : Writing(q)' => Contended(q)'
  <2>1. \A q \in Cmds : Writing(q)' => q # p /\ Writing(q)
    BY DEF Writing
  <2>. QED BY <2>1, <1>5 DEF Writing, Running
<1>9. FileInv'
  BY <1>3, <1>7, <1>8 DEF IInv, FileInv, ReadableUnlessTorn, Ended, Running
<1>. QED BY <1>2, <1>6, <1>9 DEF IInv

LEMMA LoadInv == ASSUME IInv, NEW p \in Cmds, Load(p) PROVE IInv'
<1>. DEFINE others == {q \in Cmds : pc[q] \in Running}
            l == IF ~Readable THEN "failed" ELSE IF p \in SavesAuth THEN "auth" ELSE "ready"
<1>0. TypeOK
  BY DEF IInv
<1>1. /\ pc[p] = "start" /\ p \notin others
      /\ \A q \in Cmds : pc'[q] = IF q = p THEN l ELSE pc[q]
      /\ l \in {"failed", "auth", "ready"}
  BY <1>0 DEF Load, Goto, TypeOK, Running
<1>2. /\ \A q \in Cmds : cfg'[q] = IF q = p /\ Readable THEN Content ELSE cfg[q]
      /\ \A q \in Cmds : before'[q] = IF q = p THEN {r \in Cmds : pc[r] \in Ended} ELSE before[q]
      /\ \A q \in Cmds : shared'[q] = IF q = p THEN others
                                      ELSE IF q \in others THEN shared[q] \cup {p}
                                      ELSE shared[q]
      /\ UNCHANGED <<disk, kills>>
  BY <1>0 DEF Load, TypeOK
<1>3. TypeOK'
  BY <1>0, <1>1 DEF TypeOK, Load, Goto, Content, Ended, Running, disk
<1>. HIDE DEF l
<1>4. SharedInv'
  <2>1. \A q \in Cmds : p \notin shared[q]
    BY <1>1 DEF IInv, SharedInv
  <2>2. \A q \in Cmds : /\ q # p => pc'[q] = pc[q]
                        /\ pc'[p] # "start"
    BY <1>1
  <2>. SUFFICES ASSUME NEW q \in Cmds, NEW r \in Cmds
       PROVE  /\ q # r /\ pc'[q] \in Running /\ pc'[r] \in Running => r \in shared'[q]
              /\ pc'[q] = "start" => q \notin shared'[r] /\ shared'[q] = {}
              /\ r \in before'[q] => pc'[q] # "start" /\ pc'[r] \in Ended
    BY DEF SharedInv
  <2>3. q # r /\ pc'[q] \in Running /\ pc'[r] \in Running => r \in shared'[q]
    BY <1>2, <2>2 DEF IInv, SharedInv
  <2>4. pc'[q] = "start" => q \notin shared'[r] /\ shared'[q] = {}
    <3>1. pc'[q] = "start" => pc[q] = "start" /\ q # p /\ q \notin others
      BY <2>2 DEF Running
    <3>2. shared'[r] \subseteq others \cup shared[r] \cup {p}
      BY <1>2
    <3>3. pc[q] = "start" => q \notin shared[r] /\ shared[q] = {}
      BY DEF IInv, SharedInv
    <3>4. q # p /\ q \notin others => shared'[q] = shared[q]
      BY <1>2
    <3>. QED BY <3>1, <3>2, <3>3, <3>4
  <2>5. r \in before'[q] => pc'[q] # "start" /\ pc'[r] \in Ended
    <3>1. r \in before'[q] => pc[r] \in Ended
      BY <1>2 DEF IInv, SharedInv
    <3>2. r \in before'[q] => pc'[r] = pc[r]
      BY <3>1, <1>1, <2>2 DEF Ended
    <3>3. r \in before'[q] /\ q # p => pc[q] # "start"
      BY <1>2 DEF IInv, SharedInv
    <3>. QED BY <3>1, <3>2, <3>3, <2>2
  <2>. QED BY <2>3, <2>4, <2>5
<1>5. \A q \in Cmds : /\ shared[q] \subseteq shared'[q] \/ q = p
                      /\ q # p /\ Contended(q) => Contended(q)'
  BY <1>2 DEF Contended, Saving
<1>6. \A r \in Cmds : Stored(r)' => Stored(r) /\ r # p
  BY <1>1, <1>5 DEF Stored
<1>7. \A r \in Cmds : Stored(r) /\ Readable => NodeOf[r] \in Content
  BY DEF IInv, TokenInv, Readable, Content
<1>8. TokenInv'
  <2>. SUFFICES ASSUME NEW r \in Cmds, Stored(r)', NEW q \in Cmds
       PROVE  /\ file' # "absent"
              /\ file' = "json" => NodeOf[r] \in tokens'
              /\ pc'[q] \in Running /\ q # r /\ q \notin shared'[r] => NodeOf[r] \in cfg'[q]
              /\ pc'[q] \in Running \cup {"denied"} /\ r \in before'[q]
                   => NodeOf[r] \in cfg'[q]
    BY DEF TokenInv
  <2>1. Stored(r) /\ r # p
    BY <1>6
  <2>2. file' # "absent" /\ (file' = "json" => NodeOf[r] \in tokens')
    BY <2>1, <1>2 DEF IInv, TokenInv, disk
  <2>3. CASE q = p
    <3>1. pc'[q] \in Running \cup {"denied"} => Readable
      BY <2>3, <1>1 DEF l, Running
    <3>. QED BY <2>1, <2>2, <2>3, <3>1, <1>2, <1>7
  <2>4. CASE q # p
    BY <2>1, <2>2, <2>4, <1>1, <1>2 DEF IInv, TokenInv
  <2>. QED BY <2>3, <2>4
<1>9. FileInv'
  <2>1. \A q \in Cmds : /\ Writing(q)' <=> Writing(q) /\ q # p
                        /\ Writing(p) <=> FALSE
    BY <1>1 DEF Writing
  <2>2. ReadableUnlessTorn'
    <3>1. file' = "empty" => (\E q \in Cmds : Writing(q)') \/ kills' > 0
      BY <2>1, <1>2 DEF IInv, FileInv, ReadableUnlessTorn, Writing, disk
    <3>2. Clashed => Clashed'
      <4>1. \A q \in Cmds : Contended(q) => Contended(q)' \/ q = p
        BY <1>5
      <4>2. ~Contended(p)
        BY <1>1 DEF IInv, SharedInv, Contended
      <4>. QED BY <4>1, <4>2 DEF Clashed, Saving
    <3>. QED BY <3>1, <3>2, <1>2 DEF IInv, FileInv, ReadableUnlessTorn, Writing, disk
  <2>3. \A q \in Cmds : Writing(q)' /\ file' # "empty" => Contended(q)'
    BY <2>1, <1>2, <1>5 DEF IInv, FileInv, disk
  <2>4. \A q \in Cmds : pc'[q] = "denied" => NodeOf[q] \notin cfg'[q]
    BY <1>1, <1>2 DEF IInv, FileInv
  <2>. QED BY <2>2, <2>3, <2>4 DEF FileInv
<1>. QED BY <1>3, <1>4, <1>8, <1>9 DEF IInv

-----------------------------------------------------------------------------
(* The theorems *)

LEMMA StepInv == IInv /\ [Next]_vars => IInv'
<1>. SUFFICES ASSUME IInv, [Next]_vars PROVE IInv'
  OBVIOUS
<1>1. ASSUME NEW p \in Cmds, Step(p) PROVE IInv'
  BY <1>1, LoadInv, TruncateInv, WriteInv, WriteFailsInv, AskInv, GrantedInv,
     RefusedInv, UseInv DEF Step
<1>2. ASSUME NEW p \in Cmds, Kill(p) PROVE IInv'
  BY <1>2, KillInv
<1>3. CASE UNCHANGED vars
  BY <1>3 DEF vars, disk, history, IInv, TypeOK, SharedInv, TokenInv, FileInv,
              Stored, Writing, Contended, Saving, ReadableUnlessTorn, Clashed
<1>. QED BY <1>1, <1>2, <1>3 DEF Next

LEMMA Invariance == Spec => []IInv
<1>1. Init => IInv
  BY InitInv
<1>2. IInv /\ [Next]_vars => IInv'
  BY StepInv
<1>. QED BY <1>1, <1>2, PTL DEF Spec

\* Processes, file and loaded Configs keep their types, whatever runs together.
THEOREM TypeCorrect == Spec => []TypeOK
<1>1. IInv => TypeOK
  BY DEF IInv
<1>. QED BY <1>1, Invariance, PTL

\* For any number of commands: a stored token is lost only to a command that wrote
\* the file and ran at the same time as the registration, or with the whole file.
THEOREM TokensAreKept == Spec => []TokenKept
<1>1. IInv => TokenKept
  BY CmdsAssumption DEF IInv, TokenInv, TokenKept, Stored
<1>. QED BY <1>1, Invariance, PTL

\* The file is torn only by two writers, and left without text only by a kill.
THEOREM FileIsReadable == Spec => []ReadableUnlessTorn
<1>1. IInv => ReadableUnlessTorn
  BY DEF IInv, FileInv
<1>. QED BY <1>1, Invariance, PTL

\* A command of a node that was registered before finds its token.
THEOREM UsersFindTokens == Spec => []UserFindsToken
<1>1. IInv => UserFindsToken
  BY CmdsAssumption DEF IInv, TypeOK, TokenInv, FileInv, UserFindsToken, Stored
<1>. QED BY <1>1, Invariance, PTL
=============================================================================
