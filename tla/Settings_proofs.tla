--------------------------- MODULE Settings_proofs ---------------------------
(***************************************************************************)
(* For any number of administrators and mails, any submissions and any     *)
(* environment: types, that memory and table agree once no request is      *)
(* under way, and that a mail that met no request uses one configuration.  *)
(***************************************************************************)
EXTENDS Settings, SequenceTheorems, TLAPS

USE SettingsAssumption

-----------------------------------------------------------------------------
(* Types.                                                                  *)

Held == Values \cup {Blank, Default}
Read1 == Held \cup {Torn}
Mail == [pc : {"new", "reading", "sent", "skipped"}, clean : BOOLEAN, read : Seq(Read1)]

(* The reads of a mail that is not over: none, or less than all.           *)
InOrder(x) == x.pc \in {"new", "reading"} =>
                Len(x.read) < IF x.pc = "new" THEN 1 ELSE Len(ReadOrder)

LEMMA Orders ==
  /\ Len(WriteOrder) = 5 /\ Len(ReadOrder) = 7
  /\ \A i \in 1..5 : WriteOrder[i] \in Fields
  /\ \A i \in 1..7 : ReadOrder[i] \in Fields
  /\ \A f \in Fields : \E i \in 1..5 : WriteOrder[i] = f
<1>1. Len(WriteOrder) = 5 /\ Len(ReadOrder) = 7
  BY DEF WriteOrder, ReadOrder
<1>2. /\ WriteOrder[1] = "host" /\ WriteOrder[2] = "port" /\ WriteOrder[3] = "user"
      /\ WriteOrder[4] = "password" /\ WriteOrder[5] = "from"
  BY DEF WriteOrder
<1>3. \A i \in 1..7 : ReadOrder[i] \in Fields
  BY DEF ReadOrder, Fields
<1>4. \A i \in 1..5 : i = 1 \/ i = 2 \/ i = 3 \/ i = 4 \/ i = 5
  OBVIOUS
<1>5. \A i \in 1..5 : WriteOrder[i] \in Fields
  BY <1>2, <1>4 DEF Fields
<1>6. \A f \in Fields : \E i \in 1..5 : WriteOrder[i] = f
  BY <1>2 DEF Fields
<1> QED
  BY <1>1, <1>3, <1>5, <1>6

(* A configuration may hold a torn string in one field only.               *)
LEMMA Configs ==
  \A c : c \in Config <=> /\ c \in [Fields -> Read1]
                           /\ \A f \in Fields : c[f] = Torn => f = "password"
BY DEF Config, Read1, Held

LEMMA Resolving ==
  ASSUME TypeOK, NEW r \in Submitted, NEW password \in Readable("password")
  PROVE  Resolved(r, password) \in Config /\ Resolved(r, password)["port"] # Blank
<1>1. /\ r \in [Fields -> Values \cup {Blank, Masked}]
      /\ \A f \in Fields : r[f] = Masked => f = "password"
  OBVIOUS
<1>2. "password" \in Fields /\ "port" \in Fields
  BY DEF Fields
<1>3. password \in Read1
  <2>1. memory["password"] \in Read1
    BY <1>2, Configs DEF TypeOK
  <2> QED
    BY <2>1 DEF Readable, Read1
<1> DEFINE p == IF r["password"] = Masked THEN password ELSE r["password"]
           q == IF r["port"] = Blank THEN Default ELSE r["port"]
<1>4. p \in Read1
  BY <1>1, <1>2, <1>3 DEF Read1, Held
<1>5. q \in Held /\ q # Blank
  BY <1>1, <1>2 DEF Held
<1>6. Resolved(r, password)
        = [f \in Fields |-> IF f = "port" THEN q ELSE IF f = "password" THEN p ELSE r[f]]
  BY <1>1, <1>2 DEF Resolved, Fields
<1> HIDE DEF p, q
<1>7. \A f \in Fields : f # "password" => r[f] \in Held
  BY <1>1 DEF Held
<1>8. \A f \in Fields : /\ Resolved(r, password)[f] \in Read1
                        /\ f # "password" => Resolved(r, password)[f] \in Held
  BY <1>4, <1>5, <1>6, <1>7 DEF Read1
<1>9. Torn \notin Held
  BY DEF Held
<1>10. Resolved(r, password) \in [Fields -> Read1]
  BY <1>6, <1>8
<1>11. Resolved(r, password)["port"] = q
  BY <1>2, <1>6
<1> QED
  BY <1>5, <1>8, <1>9, <1>10, <1>11, Configs

LEMMA Loading ==
  ASSUME NEW s \in Config \cup {Unsaved}
  PROVE  Loaded(s) \in Config /\ Loaded(s)["port"] # Blank
         /\ \A f \in DOMAIN s : Loads(f, s[f]) \/ Env[f] = s[f] => Loaded(s)[f] = s[f]
<1>1. \A f \in DOMAIN s : f \in Fields /\ s[f] \in Read1 /\ (s[f] = Torn => f = "password")
  BY Configs DEF Unsaved
<1>2. /\ Env \in [Fields -> Read1] /\ Env["port"] # Blank /\ "port" \in Fields
      /\ \A f \in Fields : Env[f] = Torn => f = "password"
  BY Configs DEF Fields
<1>3. \A f \in Fields : Loaded(s)[f] = IF f \in DOMAIN s /\ Loads(f, s[f]) THEN s[f] ELSE Env[f]
  BY DEF Loaded
<1>4. Loaded(s) \in [Fields -> Read1]
  BY <1>1, <1>2 DEF Loaded
<1>5. \A f \in Fields : Loaded(s)[f] = Torn => f = "password"
  BY <1>1, <1>2, <1>3
<1>6. Loaded(s)["port"] # Blank
  BY <1>2, <1>3 DEF Loads
<1>7. ASSUME NEW f \in DOMAIN s, Loads(f, s[f]) \/ Env[f] = s[f]
      PROVE  Loaded(s)[f] = s[f]
  BY <1>1, <1>3, <1>7
<1> QED
  BY <1>4, <1>5, <1>6, <1>7, Configs

LEMMA SpendTyped ==
  ASSUME budget \in Budget, NEW what, Spend(what)
  PROVE  budget' \in Budget
BY DEF Spend, Budget

(* A request goes on from its save, and from one assignment to the next.   *)
LEMMA PutSteps ==
  ASSUME NEW p \in Put
  PROVE  /\ [p EXCEPT !.pc = "write"] \in Put
         /\ [p EXCEPT !.pc = "write"].pc = "write"
         /\ [p EXCEPT !.pc = "write"].config = p.config
         /\ [p EXCEPT !.pc = "write"].alone = p.alone
         /\ [p EXCEPT !.pc = "write"].next = p.next
         /\ [p EXCEPT !.alone = FALSE] \in Put
         /\ [p EXCEPT !.alone = FALSE].pc = p.pc
         /\ [p EXCEPT !.alone = FALSE].config = p.config
         /\ [p EXCEPT !.alone = FALSE].alone = FALSE
         /\ [p EXCEPT !.alone = FALSE].next = p.next
         /\ p.next # 5 => /\ [p EXCEPT !.next = @ + 1] \in Put
                          /\ [p EXCEPT !.next = @ + 1].pc = p.pc
                          /\ [p EXCEPT !.next = @ + 1].config = p.config
                          /\ [p EXCEPT !.next = @ + 1].alone = p.alone
                          /\ [p EXCEPT !.next = @ + 1].next = p.next + 1
<1>1. /\ p.pc \in {"save", "write"} /\ p.config \in Config /\ p.alone \in BOOLEAN
      /\ p.next \in 1..5
  BY Orders DEF Put
<1>2. Put = [pc : {"save", "write"}, config : Config, next : 1..5, alone : BOOLEAN]
  BY Orders DEF Put
<1>3. /\ [p EXCEPT !.pc = "write"] \in Put
      /\ [p EXCEPT !.pc = "write"].pc = "write"
      /\ [p EXCEPT !.pc = "write"].config = p.config
      /\ [p EXCEPT !.pc = "write"].alone = p.alone
      /\ [p EXCEPT !.pc = "write"].next = p.next
  BY <1>1, <1>2
<1>4. /\ [p EXCEPT !.alone = FALSE] \in Put
      /\ [p EXCEPT !.alone = FALSE].pc = p.pc
      /\ [p EXCEPT !.alone = FALSE].config = p.config
      /\ [p EXCEPT !.alone = FALSE].alone = FALSE
      /\ [p EXCEPT !.alone = FALSE].next = p.next
  BY <1>1, <1>2
<1>5. ASSUME p.next # 5
      PROVE  /\ [p EXCEPT !.next = @ + 1] \in Put
             /\ [p EXCEPT !.next = @ + 1].pc = p.pc
             /\ [p EXCEPT !.next = @ + 1].config = p.config
             /\ [p EXCEPT !.next = @ + 1].alone = p.alone
             /\ [p EXCEPT !.next = @ + 1].next = p.next + 1
  <2>1. p.next + 1 \in 1..5
    BY <1>1, <1>5
  <2> QED
    BY <1>1, <1>2, <2>1
<1> QED
  BY <1>3, <1>4, <1>5

LEMMA Status ==
  ASSUME TypeOK, NEW h \in Handlers
  PROVE  /\ Busy(h) => put[h] \in Put /\ put[h].pc \in {"save", "write"}
         /\ ~Busy(h) => put[h] = Idle
         /\ put[h].pc \in {"save", "write"} => Busy(h)
<1>1. Idle.pc = "idle"
  BY DEF Idle
<1>2. \A p \in Put : p.pc \in {"save", "write"}
  BY DEF Put
<1> QED
  BY <1>1, <1>2 DEF TypeOK, Busy

LEMMA InitType == Init => TypeOK
<1> SUFFICES ASSUME Init PROVE TypeOK
  OBVIOUS
<1>1. << >> \in Seq(Read1)
  OBVIOUS
<1>2. Unread \in Mail
  BY <1>1 DEF Unread, Mail
<1>3. mail \in [Mails -> Mail]
  BY <1>2 DEF Init
<1>4. row \in [smtp : Config \cup {Unsaved}, timezone : Zones \cup {"none"}]
  BY DEF Init
<1>5. \A m \in Mails : mail[m].pc = "new" /\ Len(mail[m].read) = 0
  BY DEF Init, Unread
<1>6. \A m \in Mails : InOrder(mail[m])
  BY <1>5 DEF InOrder
<1>7. /\ memory \in Config /\ put \in [Handlers -> {Idle} \cup Put]
      /\ budget \in Budget /\ kept \subseteq Config /\ Env \in kept /\ {mixed, unloaded} \subseteq BOOLEAN
  BY DEF Init
<1> QED
  BY <1>3, <1>4, <1>6, <1>7 DEF TypeOK, Mail, Read1, Held, InOrder

(* Only the table, the memory and the requests.                            *)
LEMMA SubmitType ==
  ASSUME TypeOK, NEW h \in Handlers, NEW r \in Submitted, Submit(h, r)
  PROVE  TypeOK'
<1>1. /\ Spend("puts") /\ UNCHANGED <<row, memory, kept, unloaded>>
      /\ mixed' = (mixed \/ \E o \in Handlers : Busy(o))
      /\ mail' = [m \in Mails |-> IF mail[m].pc = "reading"
                                 THEN [mail[m] EXCEPT !.clean = FALSE] ELSE mail[m]]
  BY DEF Submit
<1> DEFINE b == \A k \in Handlers : ~Busy(k)
<1>14. PICK password \in Readable("password") :
         put' = [o \in Handlers |->
           IF o = h THEN [pc |-> "save", config |-> Resolved(r, password), next |-> 1,
                          alone |-> \A k \in Handlers : ~Busy(k)]
           ELSE IF Busy(o) THEN [put[o] EXCEPT !.alone = FALSE] ELSE put[o]]
  BY DEF Submit
<1>2. b \in BOOLEAN
  OBVIOUS
<1> HIDE DEF b
<1>3. [pc |-> "save", config |-> Resolved(r, password), next |-> 1, alone |-> b] \in Put
  BY <1>2, Resolving, Orders DEF Put
<1>4. [pc |-> "save", config |-> Resolved(r, password), next |-> 1,
       alone |-> \A k \in Handlers : ~Busy(k)] \in Put
  BY <1>3 DEF b
<1>5. \A o \in Handlers : Busy(o) => [put[o] EXCEPT !.alone = FALSE] \in Put
  BY Status, PutSteps
<1>6. put' \in [Handlers -> {Idle} \cup Put]
  BY <1>4, <1>5, <1>14 DEF TypeOK
<1>7. \A x \in Mail : [x EXCEPT !.clean = FALSE] \in Mail
  BY DEF Mail
<1>11. mail \in [Mails -> Mail]
  BY DEF TypeOK, Mail, Read1, Held
<1>8. mail' \in [Mails -> Mail]
  BY <1>1, <1>7, <1>11
<1>12. \A x \in Mail : /\ [x EXCEPT !.clean = FALSE].pc = x.pc
                       /\ [x EXCEPT !.clean = FALSE].read = x.read
  BY DEF Mail
<1>13. \A m \in Mails : InOrder(mail'[m])
  BY <1>1, <1>11, <1>12 DEF InOrder, TypeOK
<1>9. {mixed', unloaded'} \subseteq BOOLEAN
  BY <1>1 DEF TypeOK
<1>10. budget' \in Budget
  BY <1>1, SpendTyped DEF TypeOK
<1> QED
  BY <1>1, <1>6, <1>8, <1>9, <1>10, <1>13 DEF TypeOK, Mail, Read1, Held, InOrder

LEMMA SaveType ==
  ASSUME TypeOK, NEW h \in Handlers, Save(h) \/ SaveFails(h)
  PROVE  TypeOK'
<1>1. put[h].pc = "save" /\ UNCHANGED <<memory, mail, mixed, unloaded>> /\ budget' \in Budget
  BY SpendTyped DEF Save, SaveFails, TypeOK
<1>2. put[h] \in Put
  BY <1>1, Status
<1>3. CASE Save(h)
  <2>1. put' \in [Handlers -> {Idle} \cup Put]
    BY <1>2, <1>3, PutSteps DEF Save, TypeOK
  <2>2. put[h].config \in Config
    BY <1>2 DEF Put
  <2>3. kept' \subseteq Config /\ Env \in kept'
    BY <1>3, <2>2 DEF Save, TypeOK
  <2>4. row' \in [smtp : Config \cup {Unsaved}, timezone : Zones \cup {"none"}]
    BY <1>3, <2>2 DEF Save, TypeOK
  <2> QED
    BY <1>1, <2>1, <2>3, <2>4 DEF TypeOK
<1>4. CASE SaveFails(h)
  <2>1. put' \in [Handlers -> {Idle} \cup Put] /\ UNCHANGED <<row, kept>>
    BY <1>4 DEF SaveFails, TypeOK
  <2> QED
    BY <1>1, <2>1 DEF TypeOK
<1> QED
  BY <1>3, <1>4

LEMMA WriteFieldType ==
  ASSUME TypeOK, NEW h \in Handlers, WriteField(h)
  PROVE  TypeOK'
<1> DEFINE f == WriteOrder[put[h].next]
<1>1. /\ put[h].pc = "write" /\ UNCHANGED <<row, mail, budget, kept>>
      /\ memory' = [memory EXCEPT ![f] = put[h].config[f]]
      /\ put' = [put EXCEPT ![h] = IF put[h].next = 5 THEN Idle
                                   ELSE [put[h] EXCEPT !.next = @ + 1]]
      /\ mixed' = (mixed /\ ~(put[h].next = 5 /\ put[h].alone))
      /\ unloaded' = (unloaded /\ ~(put[h].next = 5 /\ put[h].alone))
  BY Orders DEF WriteField
<1>2. put[h] \in Put
  BY <1>1, Status
<1>3. f \in Fields /\ put[h].config \in Config
  BY <1>2, Orders DEF Put
<1> HIDE DEF f
<1>4. memory' \in Config
  <2>1. memory \in [Fields -> Read1] /\ put[h].config[f] \in Read1
        /\ (put[h].config[f] = Torn => f = "password")
        /\ \A g \in Fields : memory[g] = Torn => g = "password"
    BY <1>3, Configs DEF TypeOK
  <2>2. memory' \in [Fields -> Read1]
        /\ \A g \in Fields : memory'[g] = IF g = f THEN put[h].config[f] ELSE memory[g]
    BY <1>1, <1>3, <2>1
  <2>3. \A g \in Fields : memory'[g] = Torn => g = "password"
    BY <2>1, <2>2
  <2> QED
    BY <2>2, <2>3, Configs
<1>5. put' \in [Handlers -> {Idle} \cup Put]
  BY <1>1, <1>2, PutSteps DEF TypeOK
<1>6. {mixed', unloaded'} \subseteq BOOLEAN
  BY <1>1
<1> QED
  BY <1>1, <1>4, <1>5, <1>6 DEF TypeOK

(* What a mail is after it read x.                                         *)
After(p, x) ==
  [read  |-> Append(p.read, x),
   clean |-> p.clean /\ Settled,
   pc    |-> CASE p.pc = "new" /\ x = Blank              -> "skipped"
               [] Len(p.read) + 1 = Len(ReadOrder)      -> "sent"
               [] OTHER                                 -> "reading"]

LEMMA AfterType ==
  ASSUME NEW p \in Mail, NEW x \in Read1, p.pc \in {"new", "reading"}, InOrder(p)
  PROVE  /\ After(p, x) \in Mail /\ InOrder(After(p, x))
         /\ (p.pc = "new" => p.read = << >>)
         /\ After(p, x).read = Append(p.read, x)
         /\ After(p, x).pc # "new" /\ (After(p, x).clean => p.clean /\ Settled)
<1>1. p.read \in Seq(Read1) /\ Len(p.read) \in Nat
  BY LenProperties DEF Mail
<1>2. Len(p.read) < 7 /\ (p.pc = "new" => Len(p.read) = 0)
  BY <1>1, Orders DEF InOrder
<1>3. p.pc = "new" => p.read = << >>
  BY <1>1, <1>2, EmptySeq
<1> DEFINE s == Append(p.read, x)
           b == p.clean /\ Settled
           c == CASE p.pc = "new" /\ x = Blank              -> "skipped"
                  [] Len(p.read) + 1 = Len(ReadOrder)      -> "sent"
                  [] OTHER                                 -> "reading"
<1>4. s \in Seq(Read1) /\ Len(s) = Len(p.read) + 1
  BY <1>1
<1>5. c \in {"skipped", "sent", "reading"} /\ (c = "reading" => Len(p.read) + 1 # 7)
  BY Orders
<1>6. b \in BOOLEAN /\ (b => p.clean /\ Settled)
  BY DEF Mail, Settled
<1>7. After(p, x) = [read |-> s, clean |-> b, pc |-> c]
  BY DEF After
<1> HIDE DEF s, b, c
<1>8. After(p, x) \in Mail /\ After(p, x).read = s /\ After(p, x).pc = c /\ After(p, x).clean = b
  BY <1>4, <1>5, <1>6, <1>7 DEF Mail
<1>9. InOrder(After(p, x))
  BY <1>1, <1>2, <1>4, <1>5, <1>8, Orders DEF InOrder
<1>10. After(p, x).clean => p.clean /\ Settled
  BY <1>6, <1>8, Zenon
<1>11. After(p, x).pc # "new"
  BY <1>5, <1>8
<1>13. After(p, x).read = Append(p.read, x)
  BY <1>8 DEF s
<1> QED
  BY <1>3, <1>8, <1>9, <1>10, <1>11, <1>13, Zenon

LEMMA Reading ==
  ASSUME TypeOK, NEW m \in Mails, Read(m)
  PROVE  /\ UNCHANGED <<row, memory, put, kept, mixed, unloaded>> /\ budget' \in Budget
         /\ mail[m] \in Mail /\ InOrder(mail[m]) /\ mail[m].pc \in {"new", "reading"}
         /\ Len(mail[m].read) + 1 \in 1..7
         /\ \E x \in Readable(ReadOrder[Len(mail[m].read) + 1]) :
              /\ x \in Read1
              /\ mail' = [mail EXCEPT ![m] = After(mail[m], x)]
<1>1. UNCHANGED <<row, memory, put, kept, mixed, unloaded>> /\ budget' \in Budget
      /\ mail[m].pc \in {"new", "reading"}
  BY SpendTyped DEF Read, TypeOK
<1>2. mail[m] \in Mail /\ InOrder(mail[m])
  BY DEF TypeOK, Mail, Read1, Held, InOrder
<1>3. Len(mail[m].read) + 1 \in 1..7
  <2>1. Len(mail[m].read) \in Nat /\ Len(mail[m].read) < 7
    BY <1>1, <1>2, Orders, LenProperties DEF Mail, InOrder
  <2> QED
    BY <2>1
<1> DEFINE f == ReadOrder[Len(mail[m].read) + 1]
<1>4. f \in Fields
  BY <1>3, Orders
<1>5. PICK x \in Readable(f) : mail' = [mail EXCEPT ![m] = After(mail[m], x)]
  BY DEF Read, After
<1> HIDE DEF f
<1>6. x \in Read1
  <2>1. memory[f] \in Read1
    BY <1>4, Configs DEF TypeOK
  <2> QED
    BY <1>5, <2>1 DEF Readable, Read1
<1> QED
  BY <1>1, <1>2, <1>3, <1>5, <1>6 DEF f

LEMMA ReadType ==
  ASSUME TypeOK, NEW m \in Mails, Read(m)
  PROVE  TypeOK'
<1>1. PICK x \in Read1 : mail' = [mail EXCEPT ![m] = After(mail[m], x)]
  BY Reading
<1>2. After(mail[m], x) \in Mail /\ InOrder(After(mail[m], x))
  BY Reading, AfterType
<1>3. mail \in [Mails -> Mail] /\ \A k \in Mails : InOrder(mail[k])
  BY DEF TypeOK, Mail, Read1, Held, InOrder
<1>4. mail' \in [Mails -> Mail] /\ \A k \in Mails : InOrder(mail'[k])
  BY <1>1, <1>2, <1>3
<1>5. UNCHANGED <<row, memory, put, kept, mixed, unloaded>> /\ budget' \in Budget
  BY Reading
<1> QED
  BY <1>4, <1>5 DEF TypeOK, Mail, Read1, Held, InOrder

(* Either kind of restart.                                                 *)
LEMMA Starting ==
  ASSUME TypeOK, Restart \/ RestartUnread
  PROVE  /\ kept' = kept \cup {memory'} /\ mixed' = FALSE
         /\ put' = [h \in Handlers |-> Idle] /\ row' = row
         /\ mail' = [m \in Mails |-> IF mail[m].pc = "reading" THEN Unread ELSE mail[m]]
         /\ budget' \in Budget /\ memory' \in Config /\ memory'["port"] # Blank
         /\ \/ unloaded' = FALSE /\ memory' = Loaded(row.smtp)
            \/ unloaded' = TRUE /\ memory' = Env
<1>1. PICK config \in {Loaded(row.smtp), Env} :
        /\ StartWith(config)
        /\ \/ unloaded' = FALSE /\ config = Loaded(row.smtp)
           \/ unloaded' = TRUE /\ config = Env
  BY DEF Restart, RestartUnread
<1>2. /\ memory' = config /\ kept' = kept \cup {memory'} /\ mixed' = FALSE
      /\ put' = [h \in Handlers |-> Idle] /\ row' = row
      /\ mail' = [m \in Mails |-> IF mail[m].pc = "reading" THEN Unread ELSE mail[m]]
      /\ Spend("restarts")
  BY <1>1 DEF StartWith
<1>3. budget' \in Budget
  BY <1>2, SpendTyped DEF TypeOK
<1>4. config \in Config /\ config["port"] # Blank
  BY <1>1, Loading DEF TypeOK
<1> QED
  BY <1>1, <1>2, <1>3, <1>4

LEMMA RestartType ==
  ASSUME TypeOK, Restart \/ RestartUnread
  PROVE  TypeOK'
<1>1. /\ kept' = kept \cup {memory'} /\ mixed' = FALSE /\ unloaded' \in BOOLEAN
      /\ put' = [h \in Handlers |-> Idle] /\ row' = row
      /\ mail' = [m \in Mails |-> IF mail[m].pc = "reading" THEN Unread ELSE mail[m]]
      /\ budget' \in Budget
  BY Starting
<1>2. memory' \in Config
  BY Starting
<1>3. << >> \in Seq(Read1) /\ Len(<< >>) = 0
  OBVIOUS
<1>4. Unread \in Mail /\ InOrder(Unread)
  BY <1>3 DEF Unread, Mail, InOrder
<1>5. mail \in [Mails -> Mail] /\ \A k \in Mails : InOrder(mail[k])
  BY DEF TypeOK, Mail, Read1, Held, InOrder
<1>6. mail' \in [Mails -> Mail] /\ \A k \in Mails : InOrder(mail'[k])
  BY <1>1, <1>4, <1>5
<1>7. put' \in [Handlers -> {Idle} \cup Put]
  BY <1>1
<1> QED
  BY <1>1, <1>2, <1>6, <1>7 DEF TypeOK, Mail, Read1, Held, InOrder

LEMMA NextType == TypeOK /\ [Next]_vars => TypeOK'
<1> SUFFICES ASSUME TypeOK, [Next]_vars PROVE TypeOK'
  OBVIOUS
<1>1. ASSUME NEW z \in Zones, SaveGeneral(z) PROVE TypeOK'
  BY <1>1, SpendTyped DEF SaveGeneral, TypeOK
<1>2. CASE UNCHANGED vars
  BY <1>2 DEF vars, TypeOK
<1> QED
  BY <1>1, <1>2, SubmitType, SaveType, WriteFieldType, ReadType, RestartType DEF Next

(* The variables hold what the table and the Go types allow; in particular *)
(* the stars of the form are never saved or used as a password.            *)
THEOREM TypeCorrect == Spec => []TypeOK
BY InitType, NextType, PTL DEF Spec

-----------------------------------------------------------------------------
(* Memory and table.                                                       *)

(* What was saved is in memory, as far as a start loads it; all is as in   *)
(* the environment if it could not.                                        *)
Match == IF unloaded THEN memory = Env
         ELSE \A f \in DOMAIN row.smtp :
                Loads(f, row.smtp[f]) \/ Env[f] = row.smtp[f] => memory[f] = row.smtp[f]

(* As long as no two requests met, one at most is under way; a request     *)
(* that none met so far finds nobody else.                                 *)
Alone == \A h \in Handlers : Busy(h) =>
           /\ put[h].alone => \A k \in Handlers : k # h => ~Busy(k)
           /\ ~put[h].alone => mixed

(* A request of its own has saved what it writes, and memory holds it up   *)
(* to the next assignment.                                                 *)
Written == \A h \in Handlers :
  /\ Busy(h) => put[h].config["port"] # Blank
  /\ put[h].pc = "save" => put[h].next = 1
  /\ put[h].pc = "write" =>
       /\ put[h].config \in kept
       /\ put[h].alone => /\ row.smtp = put[h].config
                          /\ \A i \in 1..5 : i < put[h].next =>
                               memory[WriteOrder[i]] = put[h].config[WriteOrder[i]]

Writer == \E h \in Handlers : put[h].pc = "write"

Agree == ~mixed /\ ~Writer => Match /\ memory \in kept

(* Every field has a value it had in a configuration that was kept.        *)
Traced == memory["port"] # Blank /\ \A f \in Fields : \E c \in kept : memory[f] = c[f]

MemoryInv == Alone /\ Written /\ Agree /\ Traced

LEMMA InitMemory == Init => MemoryInv
<1> SUFFICES ASSUME Init PROVE MemoryInv
  OBVIOUS
<1>1. \A h \in Handlers : put[h].pc = "idle"
  BY DEF Init, Idle
<1>2. memory = Env /\ Env \in kept /\ row.smtp = Unsaved
  BY DEF Init
<1>3. DOMAIN Unsaved = {}
  BY DEF Unsaved
<1> QED
  BY <1>1, <1>2, <1>3 DEF MemoryInv, Alone, Written, Agree, Traced, Match, Writer, Busy

(* Nothing that matters here changes.                                      *)
LEMMA MemoryStays ==
  ASSUME MemoryInv, UNCHANGED <<memory, put, kept, mixed, unloaded>>, row'.smtp = row.smtp
  PROVE  MemoryInv'
<1>1. \A h \in Handlers : Busy(h)' = Busy(h)
  BY DEF Busy
<1>2. Alone'
  BY <1>1 DEF MemoryInv, Alone
<1>3. Written'
  BY <1>1 DEF MemoryInv, Written
<1>4. Agree'
  BY DEF MemoryInv, Agree, Match, Writer
<1> QED
  BY <1>2, <1>3, <1>4 DEF MemoryInv, Traced

LEMMA SubmitMemory ==
  ASSUME TypeOK, MemoryInv, NEW h \in Handlers, NEW r \in Submitted, Submit(h, r)
  PROVE  MemoryInv'
<1> DEFINE b == \A k \in Handlers : ~Busy(k)
<1>1. /\ UNCHANGED <<row, memory, kept, unloaded>> /\ ~Busy(h)
      /\ mixed' = (mixed \/ \E o \in Handlers : Busy(o))
  BY DEF Submit
<1>11. PICK password \in Readable("password") :
         put' = [o \in Handlers |->
           IF o = h THEN [pc |-> "save", config |-> Resolved(r, password), next |-> 1, alone |-> b]
           ELSE IF Busy(o) THEN [put[o] EXCEPT !.alone = FALSE] ELSE put[o]]
  BY DEF Submit
<1>2. b \in BOOLEAN /\ (b <=> \A k \in Handlers : ~Busy(k))
  OBVIOUS
<1> HIDE DEF b
<1>3. /\ put'[h].pc = "save" /\ put'[h].config = Resolved(r, password) /\ put'[h].alone = b
      /\ put'[h].next = 1
  BY <1>11
<1>4. \A o \in Handlers : o # h /\ ~Busy(o) => put'[o] = put[o]
  BY <1>11
<1>5. \A o \in Handlers : o # h /\ Busy(o) =>
        /\ put'[o].pc = put[o].pc /\ put'[o].config = put[o].config
        /\ put'[o].next = put[o].next /\ put'[o].alone = FALSE
  BY <1>11, Status, PutSteps
<1>6. \A o \in Handlers : o # h => (Busy(o)' <=> Busy(o))
  BY <1>4, <1>5 DEF Busy
<1>7. Alone'
  <2> SUFFICES ASSUME NEW o \in Handlers, Busy(o)'
               PROVE  /\ put'[o].alone => \A k \in Handlers : k # o => ~Busy(k)'
                      /\ ~put'[o].alone => mixed'
    BY DEF Alone
  <2>1. CASE o = h
    <3>1. CASE b
      BY <1>2, <1>3, <1>6, <2>1, <3>1
    <3>2. CASE ~b
      BY <1>1, <1>2, <1>3, <2>1, <3>2
    <3> QED
      BY <3>1, <3>2
  <2>2. CASE o # h
    BY <1>1, <1>5, <1>6, <2>2
  <2> QED
    BY <2>1, <2>2
<1>8. Written'
  <2> SUFFICES ASSUME NEW o \in Handlers
               PROVE  /\ Busy(o)' => put'[o].config["port"] # Blank
                      /\ put'[o].pc = "save" => put'[o].next = 1
                      /\ put'[o].pc = "write" => /\ put'[o].config \in kept
                                                 /\ put'[o].alone = FALSE
    BY <1>1 DEF Written
  <2>1. CASE o = h
    BY <1>3, <2>1, Resolving
  <2>2. CASE o # h /\ Busy(o)
    BY <1>5, <2>2 DEF MemoryInv, Written
  <2>3. CASE o # h /\ ~Busy(o)
    <3>1. put'[o].pc \notin {"save", "write"} /\ ~Busy(o)'
      BY <1>4, <1>6, <2>3 DEF Busy
    <3> QED
      BY <3>1
  <2> QED
    BY <2>1, <2>2, <2>3
<1>9. Agree'
  <2> SUFFICES ASSUME ~mixed', ~Writer' PROVE (Match /\ memory \in kept)'
    BY DEF Agree
  <2>1. ~mixed /\ \A o \in Handlers : ~Busy(o)
    BY <1>1
  <2>2. ~Writer
    BY <2>1 DEF Writer, Busy
  <2> QED
    BY <1>1, <2>1, <2>2 DEF MemoryInv, Agree, Match
<1>10. Traced'
  BY <1>1 DEF MemoryInv, Traced
<1> QED
  BY <1>7, <1>8, <1>9, <1>10 DEF MemoryInv

LEMMA SaveMemory ==
  ASSUME TypeOK, MemoryInv, NEW h \in Handlers, Save(h)
  PROVE  MemoryInv'
<1>1. /\ put[h].pc = "save" /\ put[h] \in Put /\ Busy(h)
      /\ row' = [row EXCEPT !.smtp = put[h].config]
      /\ put' = [put EXCEPT ![h] = [@ EXCEPT !.pc = "write"]]
      /\ kept' = kept \cup {put[h].config}
      /\ UNCHANGED <<memory, mixed, unloaded>>
  BY Status DEF Save
<1>2. put'[h].pc = "write" /\ put'[h].config = put[h].config /\ put'[h].alone = put[h].alone
      /\ put'[h].next = put[h].next
  BY <1>1, PutSteps DEF TypeOK
<1>3. \A o \in Handlers : o # h => put'[o] = put[o]
  BY <1>1 DEF TypeOK
<1>4. \A o \in Handlers : Busy(o)' <=> Busy(o)
  BY <1>1, <1>2, <1>3 DEF Busy
<1>5. Alone'
  BY <1>1, <1>2, <1>3, <1>4 DEF MemoryInv, Alone
<1>6. row'.smtp = put[h].config
  BY <1>1 DEF TypeOK
<1>7. Written'
  <2> SUFFICES ASSUME NEW o \in Handlers
               PROVE  /\ Busy(o)' => put'[o].config["port"] # Blank
                      /\ put'[o].pc = "save" => put'[o].next = 1
                      /\ put'[o].pc = "write" =>
                           /\ put'[o].config \in kept'
                           /\ put'[o].alone => /\ row'.smtp = put'[o].config
                                /\ \A i \in 1..5 : i < put'[o].next =>
                                     memory[WriteOrder[i]] = put'[o].config[WriteOrder[i]]
    BY <1>1 DEF Written
  <2>1. CASE o = h
    <3>1. put[h].next = 1 /\ \A i \in 1..5 : ~(i < 1)
      BY <1>1 DEF MemoryInv, Written
    <3>2. put[h].config["port"] # Blank
      BY <1>1 DEF MemoryInv, Written
    <3> QED
      BY <1>1, <1>2, <1>6, <2>1, <3>1, <3>2
  <2>2. CASE o # h
    <3>1. put'[o] = put[o] /\ (Busy(o)' <=> Busy(o))
      BY <1>3, <1>4, <2>2
    <3>2. put[o].pc = "write" => ~put[o].alone
      BY <1>1, <2>2, Status DEF MemoryInv, Alone
    <3>3. /\ Busy(o) => put[o].config["port"] # Blank
          /\ put[o].pc = "save" => put[o].next = 1
          /\ put[o].pc = "write" => put[o].config \in kept
      BY DEF MemoryInv, Written
    <3> QED
      BY <1>1, <3>1, <3>2, <3>3
  <2> QED
    BY <2>1, <2>2
<1>8. Agree'
  BY <1>2 DEF Agree, Writer
<1>9. Traced'
  BY <1>1 DEF MemoryInv, Traced
<1> QED
  BY <1>5, <1>7, <1>8, <1>9 DEF MemoryInv

LEMMA SaveFailsMemory ==
  ASSUME TypeOK, MemoryInv, NEW h \in Handlers, SaveFails(h)
  PROVE  MemoryInv'
<1>1. /\ put[h].pc = "save" /\ put' = [put EXCEPT ![h] = Idle]
      /\ UNCHANGED <<row, memory, kept, mixed, unloaded>>
  BY DEF SaveFails
<1>2. /\ put'[h].pc = "idle" /\ ~Busy(h)'
      /\ \A o \in Handlers : o # h => put'[o] = put[o] /\ (Busy(o)' <=> Busy(o))
  BY <1>1 DEF TypeOK, Idle, Busy
<1>3. Alone'
  BY <1>1, <1>2 DEF MemoryInv, Alone
<1>4. Written'
  <2> SUFFICES ASSUME NEW o \in Handlers
               PROVE  /\ Busy(o)' => put'[o].config["port"] # Blank
                      /\ put'[o].pc = "save" => put'[o].next = 1
                      /\ put'[o].pc = "write" =>
                           /\ put'[o].config \in kept
                           /\ put'[o].alone => /\ row.smtp = put'[o].config
                                /\ \A i \in 1..5 : i < put'[o].next =>
                                     memory[WriteOrder[i]] = put'[o].config[WriteOrder[i]]
    BY <1>1 DEF Written
  <2>1. CASE o = h
    BY <1>2, <2>1
  <2>2. CASE o # h
    <3>1. put'[o] = put[o] /\ (Busy(o)' <=> Busy(o))
      BY <1>2, <2>2
    <3> QED
      BY <3>1 DEF MemoryInv, Written
  <2> QED
    BY <2>1, <2>2
<1>5. Writer <=> Writer'
  BY <1>1, <1>2 DEF Writer
<1>6. Agree'
  BY <1>1, <1>5 DEF MemoryInv, Agree, Match
<1>7. Traced'
  BY <1>1 DEF MemoryInv, Traced
<1> QED
  BY <1>3, <1>4, <1>6, <1>7 DEF MemoryInv

LEMMA WriteFieldMemory ==
  ASSUME TypeOK, MemoryInv, NEW h \in Handlers, WriteField(h)
  PROVE  MemoryInv'
<1> DEFINE f == WriteOrder[put[h].next]
           last == put[h].next = 5
<1>1. /\ put[h].pc = "write" /\ UNCHANGED <<row, mail, budget, kept>>
      /\ memory' = [memory EXCEPT ![f] = put[h].config[f]]
      /\ put' = [put EXCEPT ![h] = IF last THEN Idle ELSE [put[h] EXCEPT !.next = @ + 1]]
      /\ mixed' = (mixed /\ ~(last /\ put[h].alone))
      /\ unloaded' = (unloaded /\ ~(last /\ put[h].alone))
  BY Orders DEF WriteField
<1>2. put[h] \in Put /\ Busy(h)
  BY <1>1, Status
<1>3. f \in Fields /\ put[h].config \in Config /\ put[h].next \in 1..5
  BY <1>2, Orders DEF Put
<1>4. /\ put[h].config \in kept /\ put[h].config["port"] # Blank
      /\ put[h].alone => /\ row.smtp = put[h].config
                         /\ \A i \in 1..5 : i < put[h].next =>
                              memory[WriteOrder[i]] = put[h].config[WriteOrder[i]]
  BY <1>1, <1>2 DEF MemoryInv, Written
<1>5. /\ put[h].alone => \A k \in Handlers : k # h => ~Busy(k)
      /\ ~put[h].alone => mixed
  BY <1>2 DEF MemoryInv, Alone
<1>6. memory'[f] = put[h].config[f] /\ \A g \in Fields : g # f => memory'[g] = memory[g]
  BY <1>1, <1>3, Configs DEF TypeOK
<1>7. put[h].alone => \A i \in 1..5 : i < put[h].next \/ i = put[h].next =>
                        memory'[WriteOrder[i]] = put[h].config[WriteOrder[i]]
  BY <1>4, <1>6, Orders
<1>8. \A o \in Handlers : o # h => put'[o] = put[o] /\ (Busy(o)' <=> Busy(o))
  BY <1>1 DEF TypeOK, Busy
<1> HIDE DEF f
<1>9. Traced'
  <2>1. memory'["port"] # Blank
    BY <1>4, <1>6 DEF MemoryInv, Traced, Fields
  <2>2. \A g \in Fields : \E c \in kept' : memory'[g] = c[g]
    BY <1>1, <1>4, <1>6 DEF MemoryInv, Traced
  <2> QED
    BY <2>1, <2>2 DEF Traced
<1>10. ASSUME NEW o \in Handlers, o # h
       PROVE  /\ Busy(o)' => put'[o].config["port"] # Blank
              /\ put'[o].pc = "save" => put'[o].next = 1
              /\ put'[o].pc = "write" => put'[o].config \in kept' /\ ~put'[o].alone
  <2>1. put'[o] = put[o] /\ (Busy(o)' <=> Busy(o))
    BY <1>8, <1>10
  <2>2. put[o].pc = "write" => ~put[o].alone
    BY <1>2, <1>10, Status DEF MemoryInv, Alone
  <2>3. /\ Busy(o) => put[o].config["port"] # Blank
        /\ put[o].pc = "save" => put[o].next = 1
        /\ put[o].pc = "write" => put[o].config \in kept
    BY DEF MemoryInv, Written
  <2> QED
    BY <1>1, <2>1, <2>2, <2>3
<1>11. CASE last
  <2>1. put'[h] = Idle /\ put'[h].pc = "idle" /\ ~Busy(h)'
    BY <1>1, <1>11 DEF TypeOK, Idle, Busy
  <2>2. Alone'
    <3> SUFFICES ASSUME NEW o \in Handlers, Busy(o)'
                 PROVE  /\ put'[o].alone => \A k \in Handlers : k # o => ~Busy(k)'
                        /\ ~put'[o].alone => mixed'
      BY DEF Alone
    <3>1. o # h /\ put'[o] = put[o] /\ Busy(o)
      BY <1>8, <2>1
    <3>2. ~put[h].alone
      BY <1>5, <3>1
    <3>3. mixed' = mixed
      BY <1>1, <3>2 DEF TypeOK
    <3>4. /\ put[o].alone => \A k \in Handlers : k # o => ~Busy(k)
          /\ ~put[o].alone => mixed
      BY <3>1 DEF MemoryInv, Alone
    <3> QED
      BY <1>8, <2>1, <3>1, <3>3, <3>4
  <2>3. Written'
    BY <1>10, <2>1 DEF Written
  <2>4. Agree'
    <3> SUFFICES ASSUME ~mixed' PROVE Match' /\ memory' \in kept'
      BY DEF Agree
    <3>1. put[h].alone
      BY <1>1, <1>5, <1>11
    <3>2. \A g \in Fields : memory'[g] = put[h].config[g]
      <4>1. \A i \in 1..5 : i < put[h].next \/ i = put[h].next
        BY <1>11
      <4> QED
        BY <1>7, <3>1, <4>1, Orders
    <3>3. memory' \in Config
      BY WriteFieldType DEF TypeOK
    <3>4. memory' = put[h].config
      BY <1>3, <3>2, <3>3, Configs
    <3>5. unloaded' = FALSE
      BY <1>1, <1>11, <3>1
    <3> QED
      BY <1>1, <1>4, <3>1, <3>4, <3>5 DEF Match
  <2> QED
    BY <1>9, <2>2, <2>3, <2>4 DEF MemoryInv
<1>12. CASE ~last
  <2>1. /\ put'[h].pc = "write" /\ put'[h].config = put[h].config
        /\ put'[h].alone = put[h].alone /\ put'[h].next = put[h].next + 1
    BY <1>1, <1>2, <1>12, PutSteps DEF TypeOK
  <2>2. Busy(h)' /\ mixed' = mixed
    BY <1>1, <1>12, <2>1 DEF Busy, TypeOK
  <2>3. Alone'
    BY <1>2, <1>8, <2>1, <2>2 DEF MemoryInv, Alone
  <2>4. put[h].alone => \A i \in 1..5 : i < put[h].next + 1 =>
                          memory'[WriteOrder[i]] = put[h].config[WriteOrder[i]]
    <3>1. \A i \in 1..5 : i < put[h].next + 1 => i < put[h].next \/ i = put[h].next
      BY <1>3
    <3> QED
      BY <1>7, <3>1
  <2>5. Written'
    <3> SUFFICES ASSUME NEW o \in Handlers
                 PROVE  /\ Busy(o)' => put'[o].config["port"] # Blank
                        /\ put'[o].pc = "save" => put'[o].next = 1
                        /\ put'[o].pc = "write" =>
                             /\ put'[o].config \in kept'
                             /\ put'[o].alone => /\ row'.smtp = put'[o].config
                                  /\ \A i \in 1..5 : i < put'[o].next =>
                                       memory'[WriteOrder[i]] = put'[o].config[WriteOrder[i]]
      BY DEF Written
    <3>1. CASE o = h
      BY <1>1, <1>4, <2>1, <2>4, <3>1
    <3>2. CASE o # h
      BY <1>10, <3>2
    <3> QED
      BY <3>1, <3>2
  <2>6. Agree'
    BY <2>1 DEF Agree, Writer
  <2> QED
    BY <1>9, <2>3, <2>5, <2>6 DEF MemoryInv
<1> QED
  BY <1>11, <1>12

LEMMA RestartMemory ==
  ASSUME TypeOK, MemoryInv, Restart \/ RestartUnread
  PROVE  MemoryInv'
<1>1. /\ kept' = kept \cup {memory'} /\ mixed' = FALSE /\ memory'["port"] # Blank
      /\ put' = [h \in Handlers |-> Idle] /\ row' = row
  BY Starting
<1>2. \A h \in Handlers : put'[h].pc = "idle" /\ ~Busy(h)'
  BY <1>1 DEF Idle, Busy
<1>3. Match'
  <2>1. CASE unloaded' = FALSE /\ memory' = Loaded(row.smtp)
    BY <1>1, <2>1, Loading DEF TypeOK, Match
  <2>2. CASE unloaded' = TRUE /\ memory' = Env
    BY <2>2 DEF Match
  <2> QED
    BY <2>1, <2>2, Starting
<1>4. Alone' /\ Written'
  BY <1>2 DEF Alone, Written
<1>5. Agree' /\ Traced'
  BY <1>1, <1>3 DEF Agree, Traced
<1> QED
  BY <1>4, <1>5 DEF MemoryInv

LEMMA NextMemory == TypeOK /\ MemoryInv /\ [Next]_vars => MemoryInv'
<1> SUFFICES ASSUME TypeOK, MemoryInv, [Next]_vars PROVE MemoryInv'
  OBVIOUS
<1>1. ASSUME NEW z \in Zones, SaveGeneral(z) PROVE MemoryInv'
  <2>1. UNCHANGED <<memory, put, kept, mixed, unloaded>> /\ row'.smtp = row.smtp
    BY <1>1 DEF SaveGeneral, TypeOK
  <2> QED
    BY <2>1, MemoryStays
<1>2. ASSUME NEW m \in Mails, Read(m) PROVE MemoryInv'
  BY <1>2, Reading, MemoryStays
<1>3. CASE UNCHANGED vars
  BY <1>3, MemoryStays DEF vars
<1> QED
  BY <1>1, <1>2, <1>3, SubmitMemory, SaveMemory, SaveFailsMemory, WriteFieldMemory,
     RestartMemory DEF Next

(* Unless requests overlapped and none came alone since, memory is what    *)
(* was saved last, as far as a start loads it, or the environment if the   *)
(* start could not read the row; and the form can be submitted as it is    *)
(* shown: a request of its own leaves in memory what it saved.             *)
THEOREM MemoryFollowsTable == Spec => []MemoryMatchesTable
<1>1. TypeOK /\ MemoryInv => MemoryMatchesTable
  <2> SUFFICES ASSUME TypeOK, MemoryInv, Settled
               PROVE  Match /\ Resolved(GetSMTP, memory["password"]) = memory
    BY DEF MemoryMatchesTable, Match
  <2>1. Match
    BY DEF MemoryInv, Agree, Writer, Settled, Busy
  <2>2. memory \in [Fields -> Read1] /\ "port" \in Fields /\ "password" \in Fields
        /\ memory["port"] # Blank
    BY Configs DEF TypeOK, Fields, MemoryInv, Traced
  <2>3. Resolved(GetSMTP, memory["password"]) = memory
    BY <2>2 DEF Resolved, GetSMTP
  <2> QED
    BY <2>1, <2>3
<1> QED
  BY <1>1, InitType, NextType, InitMemory, NextMemory, PTL DEF Spec

-----------------------------------------------------------------------------
(* Mails.                                                                  *)

From(s, c) == \A i \in DOMAIN s : s[i] = c[ReadOrder[i]]

Traceable(s) == \A i \in DOMAIN s : /\ s[i] # Torn => \E c \in kept : s[i] = c[ReadOrder[i]]
                                    /\ ReadOrder[i] = "port" => s[i] # Torn

(* A mail that met no request so far and is not over has read what memory  *)
(* holds, and no request is under way.                                     *)
Clean(x) == x.clean => /\ \E c \in kept : From(x.read, c)
                       /\ x.pc = "reading" => Settled /\ From(x.read, memory)

MailInv == \A m \in Mails : Clean(mail[m]) /\ Traceable(mail[m].read)

LEMMA NothingRead == From(<< >>, Env) /\ Traceable(<< >>)
<1>1. DOMAIN << >> = {}
  OBVIOUS
<1> QED
  BY <1>1 DEF From, Traceable

LEMMA InitMail == Init => MailInv
<1> SUFFICES ASSUME Init, NEW m \in Mails PROVE Clean(mail[m]) /\ Traceable(mail[m].read)
  BY DEF MailInv
<1>1. mail[m].pc = "new" /\ mail[m].read = << >> /\ Env \in kept
  BY DEF Init, Unread
<1> QED
  BY <1>1, NothingRead DEF Clean

LEMMA TraceableStays ==
  ASSUME NEW s, Traceable(s), kept \subseteq kept'
  PROVE  Traceable(s)'
BY DEF Traceable

(* A step of a request: nobody reads who met none.                         *)
LEMMA RequestMail ==
  ASSUME TypeOK, MailInv, NEW h \in Handlers, Busy(h), kept \subseteq kept', mail' = mail
  PROVE  MailInv'
<1> SUFFICES ASSUME NEW m \in Mails
             PROVE  (Clean(mail[m]) /\ Traceable(mail[m].read))'
  BY DEF MailInv
<1>1. Clean(mail[m]) /\ Traceable(mail[m].read) /\ ~Settled
  BY DEF MailInv, Settled
<1>2. Clean(mail[m])'
  BY <1>1 DEF Clean, From
<1>3. Traceable(mail[m].read)'
  BY <1>1 DEF Traceable
<1> QED
  BY <1>2, <1>3

LEMMA SubmitMail ==
  ASSUME TypeOK, MailInv, NEW h \in Handlers, NEW r \in Submitted, Submit(h, r)
  PROVE  MailInv'
<1> SUFFICES ASSUME NEW m \in Mails
             PROVE  (Clean(mail[m]) /\ Traceable(mail[m].read))'
  BY DEF MailInv
<1>1. /\ kept' = kept /\ memory' = memory
      /\ mail'[m] = IF mail[m].pc = "reading" THEN [mail[m] EXCEPT !.clean = FALSE]
                                              ELSE mail[m]
  BY DEF Submit
<1>2. mail[m] \in Mail
  BY DEF TypeOK, Mail, Read1, Held
<1>3. Clean(mail[m]) /\ Traceable(mail[m].read)
  BY DEF MailInv
<1>4. CASE mail[m].pc = "reading"
  <2>1. mail'[m].clean = FALSE /\ mail'[m].read = mail[m].read
    BY <1>1, <1>2, <1>4 DEF Mail
  <2> QED
    BY <1>1, <1>3, <2>1 DEF Clean, Traceable
<1>5. CASE mail[m].pc # "reading"
  <2>1. mail'[m] = mail[m]
    BY <1>1, <1>5
  <2> QED
    BY <1>1, <1>3, <1>5, <2>1 DEF Clean, Traceable, From
<1> QED
  BY <1>4, <1>5

LEMMA ReadMail ==
  ASSUME TypeOK, MemoryInv, MailInv, NEW n \in Mails, Read(n)
  PROVE  MailInv'
<1> DEFINE j == Len(mail[n].read) + 1
           f == ReadOrder[j]
<1>1. UNCHANGED <<row, memory, put, kept, mixed, unloaded>> /\ mail[n] \in Mail /\ InOrder(mail[n])
      /\ mail[n].pc \in {"new", "reading"} /\ j \in 1..7
  BY Reading
<1>2. PICK x \in Readable(f) : x \in Read1 /\ mail' = [mail EXCEPT ![n] = After(mail[n], x)]
  BY Reading
<1>3. f \in Fields
  BY <1>1, Orders
<1>4. Settled' = Settled
  BY <1>1 DEF Settled, Busy
<1> SUFFICES ASSUME NEW m \in Mails
             PROVE  (Clean(mail[m]) /\ Traceable(mail[m].read))'
  BY DEF MailInv
<1>5. CASE m # n
  <2>1. mail'[m] = mail[m] /\ Clean(mail[m]) /\ Traceable(mail[m].read)
    BY <1>2, <1>5 DEF MailInv, TypeOK
  <2> QED
    BY <1>1, <1>4, <2>1 DEF Clean, Traceable, From
<1>6. CASE m = n
  <2> DEFINE s == mail[n].read
             t == Append(s, x)
  <2>1. mail'[m] = After(mail[n], x)
    BY <1>2, <1>6 DEF TypeOK
  <2>2. /\ mail'[m].read = t /\ (mail[n].pc = "new" => s = << >>)
        /\ mail'[m].clean => mail[n].clean /\ Settled
    BY <1>1, <1>2, <2>1, AfterType
  <2>3. /\ s \in Seq(Read1) /\ DOMAIN t = DOMAIN s \cup {j}
        /\ t[j] = x /\ \A i \in DOMAIN s : t[i] = s[i]
    <3>1. s \in Seq(Read1)
      BY <1>1 DEF Mail
    <3> HIDE DEF s
    <3> QED
      BY <1>2, <3>1, AppendProperties DEF s
  <2>4. Clean(mail[n]) /\ Traceable(s)
    BY DEF MailInv
  <2>5. Traceable(t)
    <3>1. x # Torn => x = memory[f]
      BY <1>2, <1>3 DEF Readable
    <3>2. \E c \in kept : memory[f] = c[f]
      BY <1>3 DEF MemoryInv, Traced
    <3>3. f = "port" => x # Torn
      <4>1. memory["port"] # Torn
        BY Configs DEF TypeOK, Fields
      <4> QED
        BY <1>2, <4>1 DEF Readable
    <3> HIDE DEF s, t, j, f
    <3>4. \A i \in DOMAIN s : /\ t[i] # Torn => \E c \in kept : t[i] = c[ReadOrder[i]]
                              /\ ReadOrder[i] = "port" => t[i] # Torn
      BY <2>3, <2>4 DEF Traceable
    <3>5. /\ t[j] # Torn => \E c \in kept : t[j] = c[ReadOrder[j]]
          /\ ReadOrder[j] = "port" => t[j] # Torn
      BY <2>3, <3>1, <3>2, <3>3 DEF f
    <3> HIDE DEF t
    <3>7. \A i \in DOMAIN t : i \in DOMAIN s \/ i = j
      BY <2>3
    <3> QED
      BY <3>4, <3>5, <3>7 DEF Traceable
  <2>6. ASSUME mail'[m].clean
        PROVE  Settled /\ memory \in kept /\ From(t, memory)
    <3>1. Settled /\ mail[n].clean
      BY <2>2, <2>6
    <3>2. memory \in kept
      BY <3>1 DEF MemoryInv, Agree, Writer, Settled, Busy
    <3>3. x = memory[f]
      <4>1. ~Writing(f)
        BY <3>1 DEF Settled, Writing, Busy
      <4> QED
        BY <1>2, <4>1 DEF Readable
    <3>4. From(s, memory)
      <4>1. CASE mail[n].pc = "new"
        <5>1. DOMAIN s = {}
          BY <2>2, <4>1
        <5> QED
          BY <5>1 DEF From
      <4>2. CASE mail[n].pc = "reading"
        BY <2>4, <3>1, <4>2 DEF Clean
      <4> QED
        BY <1>1, <4>1, <4>2
    <3> HIDE DEF s, t, j
    <3>5. From(t, memory)
      BY <2>3, <3>3, <3>4 DEF From
    <3> QED
      BY <3>1, <3>2, <3>5
  <2>7. Clean(mail[m])'
    <3> HIDE DEF t
    <3> QED
      BY <1>1, <1>4, <2>2, <2>6 DEF Clean, From
  <2> HIDE DEF t
  <2>8. Traceable(mail[m].read)'
    BY <1>1, <2>2, <2>5 DEF Traceable
  <2> QED
    BY <2>7, <2>8
<1> QED
  BY <1>5, <1>6

LEMMA RestartMail ==
  ASSUME TypeOK, MailInv, Restart \/ RestartUnread
  PROVE  MailInv'
<1> SUFFICES ASSUME NEW m \in Mails
             PROVE  (Clean(mail[m]) /\ Traceable(mail[m].read))'
  BY DEF MailInv
<1>1. /\ kept \subseteq kept' /\ Env \in kept'
      /\ mail'[m] = IF mail[m].pc = "reading" THEN Unread ELSE mail[m]
  BY Starting DEF TypeOK
<1>2. CASE mail[m].pc = "reading"
  <2>1. mail'[m].pc = "new" /\ mail'[m].read = << >>
    BY <1>1, <1>2 DEF Unread
  <2>2. Traceable(<< >>)'
    BY <1>1, NothingRead, TraceableStays
  <2> QED
    BY <1>1, <2>1, <2>2, NothingRead DEF Clean, From, Traceable
<1>3. CASE mail[m].pc # "reading"
  <2>1. mail'[m] = mail[m] /\ Clean(mail[m]) /\ Traceable(mail[m].read)
    BY <1>1, <1>3 DEF MailInv
  <2> QED
    BY <1>1, <1>3, <2>1 DEF Clean, Traceable, From
<1> QED
  BY <1>2, <1>3

LEMMA NextMail == TypeOK /\ MemoryInv /\ MailInv /\ [Next]_vars => MailInv'
<1> SUFFICES ASSUME TypeOK, MemoryInv, MailInv, [Next]_vars PROVE MailInv'
  OBVIOUS
<1>1. ASSUME NEW h \in Handlers, Save(h) \/ SaveFails(h) \/ WriteField(h)
      PROVE  MailInv'
  <2>1. Busy(h) /\ kept \subseteq kept' /\ mail' = mail
    BY <1>1, Status DEF Save, SaveFails, WriteField
  <2> QED
    BY <2>1, RequestMail
<1>2. CASE (\E z \in Zones : SaveGeneral(z)) \/ UNCHANGED vars
  <2>1. UNCHANGED <<memory, put, mail, kept, mixed, unloaded>>
    BY <1>2 DEF SaveGeneral, vars
  <2>2. Settled' = Settled
    BY <2>1 DEF Settled, Busy
  <2>3. \A m \in Mails : Clean(mail[m])' /\ Traceable(mail[m].read)'
    BY <2>1, <2>2 DEF MailInv, Clean, From, Traceable
  <2> QED
    BY <2>3 DEF MailInv
<1> QED
  BY <1>1, <1>2, SubmitMail, ReadMail, RestartMail DEF Next

(* A mail that no request met carries one configuration that was saved or  *)
(* loaded whole, although its seven reads take no lock: a request that     *)
(* starts meets every mail that is being sent.  Any other mail has in each *)
(* field a value the field once had, or a torn one.                        *)
THEOREM MailsAreOfOneKind == Spec => []MailUsesOneConfiguration
<1>1. TypeOK /\ MailInv => MailUsesOneConfiguration
  BY DEF MailInv, Clean, Traceable, From, MailUsesOneConfiguration
<1> QED
  BY <1>1, InitType, NextType, InitMemory, NextMemory, InitMail, NextMail, PTL DEF Spec
=============================================================================
