------------------------------ MODULE Settings ------------------------------
(***************************************************************************)
(* The settings.  The configuration of the mail server is a row of the     *)
(* app_settings table and five fields of a record in memory, which one     *)
(* handler writes and the mail sender reads, without a lock; the time zone *)
(* is another row, and is not kept in memory.                              *)
(*                                                                         *)
(* The fields are written and read one by one.  A string is two words, so  *)
(* that a field that is read while it is written may come out as neither   *)
(* value, here Torn; the port is one word.  The password is also read by   *)
(* the handler, which saves what it read.  A mail that the memory cannot   *)
(* serve is not retried here.                                              *)
(***************************************************************************)
EXTENDS Naturals, Sequences

CONSTANTS Values,      \* what a field may hold, beside Blank
          Blank,       \* an empty string, or port 0
          Masked,      \* the stars that stand for a password
          Torn,
          Default,     \* port 587
          Negative,    \* the values that, as a port, are below zero
          Env,         \* the configuration in the environment
          Submitted,   \* what administrators submit
          Zones,
          Handlers,    \* bound: PUT requests that may be under way at once
          Mails,       \* bound: the mails
          Budgets      \* bounds: how often each thing happens

Fields == {"host", "port", "user", "password", "from"}

(* The order of the assignments in PutSMTP, and of the reads in Send       *)
WriteOrder == <<"host", "port", "user", "password", "from">>
ReadOrder  == <<"host", "host", "port", "user", "password", "host", "from">>

Budget == [puts : Nat, zones : Nat, reads : Nat, faults : Nat, restarts : Nat]

(* Only a password may have been read torn by the handler that saved it.   *)
Config == {c \in [Fields -> Values \cup {Blank, Default, Torn}] :
             \A f \in Fields : c[f] = Torn => f = "password"}

Idle == [pc |-> "idle"]
Put  == [pc : {"save", "write"}, config : Config, next : 1..Len(WriteOrder), alone : BOOLEAN]

ASSUME SettingsAssumption ==
  /\ {Blank, Masked, Torn, Default} \cap Values = {}
  /\ Masked \notin {Blank, Default} /\ Torn \notin {Blank, Default} /\ Blank # Default
  /\ Env \in Config /\ Env["port"] # Blank
  /\ Negative \subseteq Values
  /\ Submitted \subseteq [Fields -> Values \cup {Blank, Masked}]
  /\ \A r \in Submitted, f \in Fields : r[f] = Masked => f = "password"
  /\ Budgets \subseteq Budget

VARIABLES
  row,        \* app_settings: the saved configuration, or none; and the zone
  memory,     \* infrastructure.Config: the five fields
  put,        \* requests that write the configuration
  mail,       \* mails: what was read so far; clean while no request was met
  budget,     \* what is left of the bounds
  kept,       \* history: every configuration that was saved or loaded whole
  mixed,      \* history: requests overlapped, and none alone since
  unloaded    \* history: the start could not read the row, and none alone since

vars == <<row, memory, put, mail, budget, kept, mixed, unloaded>>

Spend(what) == budget[what] > 0 /\ budget' = [budget EXCEPT ![what] = @ - 1]

Unsaved == [f \in {} |-> Blank]

Unread == [pc |-> "new", read |-> <<>>, clean |-> TRUE]

LoadIfBlank(saved) ==   \* mutant: the environment comes first
  [f \in Fields |-> IF f \in DOMAIN saved /\ Env[f] = Blank THEN saved[f] ELSE Env[f]]

(* LoadSMTPFromDB: of a saved configuration, the strings that are not      *)
(* empty, and the port if it is above zero                                 *)
Loads(f, x) == x # Blank /\ (f = "port" => x \notin Negative)

Loaded(saved) ==
  [f \in Fields |-> IF f \in DOMAIN saved /\ Loads(f, saved[f]) THEN saved[f] ELSE Env[f]]

Init ==
  /\ row = [smtp |-> Unsaved, timezone |-> "none"]
  /\ memory = Env
  /\ put = [h \in Handlers |-> Idle]
  /\ mail = [m \in Mails |-> Unread]
  /\ budget \in Budgets
  /\ kept = {Env} /\ mixed = FALSE /\ unloaded = FALSE

-----------------------------------------------------------------------------
(* The handler.                                                            *)

Busy(h) == put[h].pc # "idle"

Writing(f) == \E h \in Handlers : put[h].pc = "write" /\ WriteOrder[put[h].next] = f

(* What reading a field without a lock may yield                           *)
Readable(f) == {memory[f]} \cup IF Writing(f) /\ f # "port" THEN {Torn} ELSE {}

(* The stars stand for the password that is read from memory, and a port   *)
(* that is not given for 587; a negative one passes.                       *)
Resolved(r, password) ==
  [r EXCEPT !["password"] = IF @ = Masked THEN password ELSE @,
            !["port"]     = IF @ = Blank THEN Default ELSE @]

Submit(h, r) ==
  /\ ~Busy(h) /\ Spend("puts")
  /\ \E password \in Readable("password") :
       put' = [o \in Handlers |->
         IF o = h THEN [pc |-> "save", config |-> Resolved(r, password), next |-> 1,
                        alone |-> \A k \in Handlers : ~Busy(k)]
         ELSE IF Busy(o) THEN [put[o] EXCEPT !.alone = FALSE] ELSE put[o]]
  /\ mixed' = (mixed \/ \E o \in Handlers : Busy(o))
  /\ mail' = [m \in Mails |-> IF mail[m].pc = "reading"
                             THEN [mail[m] EXCEPT !.clean = FALSE] ELSE mail[m]]
  /\ UNCHANGED <<row, memory, kept, unloaded>>

(* The row is inserted or replaced.                                        *)
Save(h) ==
  /\ put[h].pc = "save"
  /\ row' = [row EXCEPT !.smtp = put[h].config]
  /\ put' = [put EXCEPT ![h].pc = "write"]
  /\ kept' = kept \cup {put[h].config}
  /\ UNCHANGED <<memory, mail, budget, mixed, unloaded>>

SaveFailsLate(h) ==   \* mutant: the error of the database is not looked at
  /\ put[h].pc = "save" /\ Spend("faults")
  /\ put' = [put EXCEPT ![h].pc = "write"]
  /\ UNCHANGED <<row, memory, mail, kept, mixed, unloaded>>

(* The database refuses, and memory keeps what it has.                     *)
SaveFails(h) ==
  /\ put[h].pc = "save" /\ Spend("faults")
  /\ put' = [put EXCEPT ![h] = Idle]
  /\ UNCHANGED <<row, memory, mail, kept, mixed, unloaded>>

(* The next of the five assignments.  A request that had no company has    *)
(* then written all that an earlier mixture left.                          *)
WriteField(h) ==
  LET r == put[h]
      f == WriteOrder[r.next]
      last == r.next = Len(WriteOrder)
  IN  /\ r.pc = "write"
      /\ memory' = [memory EXCEPT ![f] = r.config[f]]
      /\ put' = [put EXCEPT ![h] = IF last THEN Idle
                                   ELSE [r EXCEPT !.next = @ + 1]]
      /\ mixed' = (mixed /\ ~(last /\ r.alone))
      /\ unloaded' = (unloaded /\ ~(last /\ r.alone))
      /\ UNCHANGED <<row, mail, budget, kept>>

GetSMTP ==
  [memory EXCEPT !["password"] = IF @ = Blank THEN Blank ELSE Masked]

SaveGeneral(z) ==
  /\ Spend("zones")
  /\ row' = [row EXCEPT !.timezone = z]
  /\ UNCHANGED <<memory, put, mail, kept, mixed, unloaded>>

GetGeneral == IF row.timezone = "none" THEN "UTC" ELSE row.timezone

-----------------------------------------------------------------------------
(* The mail sender.                                                        *)

Settled == ~mixed /\ \A h \in Handlers : ~Busy(h)

(* A mail without a host is not sent and counts as sent.                   *)
Read(m) ==
  LET f == ReadOrder[Len(mail[m].read) + 1]
  IN  /\ mail[m].pc \in {"new", "reading"}
      /\ Spend("reads")
      /\ \E x \in Readable(f) :
           mail' = [mail EXCEPT ![m] =
             [read  |-> Append(@.read, x),
              clean |-> @.clean /\ Settled,
              pc    |-> CASE @.pc = "new" /\ x = Blank              -> "skipped"
                          [] Len(@.read) + 1 = Len(ReadOrder)      -> "sent"
                          [] OTHER                                 -> "reading"]]
      /\ UNCHANGED <<row, memory, put, kept, mixed, unloaded>>

-----------------------------------------------------------------------------
(* The process starts with this configuration, and no request under way.   *)
StartWith(config) ==
  /\ Spend("restarts")
  /\ memory' = config
  /\ kept' = kept \cup {config}
  /\ put' = [h \in Handlers |-> Idle]
  /\ mail' = [m \in Mails |-> IF mail[m].pc = "reading" THEN Unread ELSE mail[m]]
  /\ mixed' = FALSE
  /\ UNCHANGED row

Restart == StartWith(Loaded(row.smtp)) /\ unloaded' = FALSE

(* The row cannot be read or decoded: nobody is told, and the environment  *)
(* stays, whatever was saved.                                              *)
RestartUnread == StartWith(Env) /\ unloaded' = TRUE

Next ==
  \/ \E h \in Handlers :
       Save(h) \/ SaveFails(h) \/ WriteField(h) \/ \E r \in Submitted : Submit(h, r)
  \/ \E z \in Zones : SaveGeneral(z)
  \/ \E m \in Mails : Read(m)
  \/ Restart \/ RestartUnread

Spec == Init /\ [][Next]_vars

-----------------------------------------------------------------------------
(* Properties.                                                             *)

(* Unless requests overlapped and no other came alone since, what is used  *)
(* is what was saved last, after a failed save as after a restart that     *)
(* could read the row.  Such a restart may change two kinds of fields: a   *)
(* string that was saved blank and a port that was saved negative, where   *)
(* the environment has another value.  After one that could not, it is the *)
(* environment, whole, until the configuration is saved again.  And what   *)
(* the form shows can be submitted without a change to the configuration.  *)
MemoryMatchesTable ==
  Settled =>
    /\ IF unloaded THEN memory = Env
       ELSE \A f \in DOMAIN row.smtp :
              Loads(f, row.smtp[f]) \/ Env[f] = row.smtp[f] => memory[f] = row.smtp[f]
    /\ Resolved(GetSMTP, memory["password"]) = memory

(* A mail that no request met is sent with one configuration that was      *)
(* saved or loaded, also if a restart came before; one that met some has   *)
(* in every field what that field once had or a torn string, and its port  *)
(* is never torn.  (A request that met another may itself have saved a     *)
(* torn password; then that is what the configuration holds.)              *)
MailUsesOneConfiguration ==
  \A m \in Mails :
    LET used(c, i) == mail[m].read[i] = c[ReadOrder[i]]
        read == DOMAIN mail[m].read
    IN  /\ mail[m].clean => \E c \in kept : \A i \in read : used(c, i)
        /\ \A i \in read : mail[m].read[i] # Torn => \E c \in kept : used(c, i)
        /\ \A i \in read : ReadOrder[i] = "port" => mail[m].read[i] # Torn

(* The variables hold what the table and the Go types allow.               *)
TypeOK ==
  /\ row \in [smtp : Config \cup {Unsaved}, timezone : Zones \cup {"none"}]
  /\ memory \in Config
  /\ put \in [Handlers -> {Idle} \cup Put]
  /\ mail \in [Mails -> [pc : {"new", "reading", "sent", "skipped"}, clean : BOOLEAN,
                         read : Seq(Values \cup {Blank, Default, Torn})]]
  /\ \A m \in Mails : mail[m].pc \in {"new", "reading"} =>
                      Len(mail[m].read) < IF mail[m].pc = "new" THEN 1 ELSE Len(ReadOrder)
  /\ budget \in Budget
  /\ kept \subseteq Config /\ Env \in kept /\ {mixed, unloaded} \subseteq BOOLEAN
=============================================================================
