---------------------------- MODULE UserSSHConfig ----------------------------
(***************************************************************************)
(* The managed block in the user's own OpenSSH config: UpsertManagedBlock  *)
(* and RemoveManagedBlock read the whole file, rewrite it in memory and    *)
(* write it back with os.WriteFile, which truncates the file first.        *)
(*                                                                         *)
(* A file is a sequence of lines.  The markers are found as substrings, so *)
(* the marker of an alias is also found in that of any alias it is a       *)
(* prefix of; ExtendedBy[a] is the set of these longer aliases.            *)
(***************************************************************************)
EXTENDS Naturals, Sequences, FiniteSets, FiniteSetsExt

CONSTANTS
    Aliases,     \* target names
    Ports,       \* local ports
    Texts,       \* what the user's own lines say
    ExtendedBy,  \* for each alias, the aliases it is a proper prefix of
    Originals,   \* contents the user's file may have at first
    Commands     \* slots in which commands run

Line(kind, name, port) == [kind |-> kind, name |-> name, port |-> port]
Blank == Line("blank", "", 0)

Names == Aliases \cup Texts \cup {""}

\* The body of a block stands for its Host section, with the port it names.
Lines ==
    {l \in [kind : {"user", "blank", "begin", "body", "end", "tail"},
            name : Names, port : Ports \cup {0}] : l.kind = "body" => l.port # 0}

ASSUME FileAssumption ==
    /\ Ports \subseteq Nat \ {0}
    /\ ExtendedBy \in [Aliases -> SUBSET Aliases]
    /\ Originals \subseteq Seq(Lines)

-----------------------------------------------------------------------------
(* Rewriting the content. *)

\* strings.TrimLeft(content, "\r\n")
TrimLeft(content) ==
    LET rest == {i \in DOMAIN content : content[i] # Blank}
    IN  IF rest = {} THEN <<>> ELSE SubSeq(content, Min(rest), Len(content))

\* renderManagedBlock: the markers with the Host section between them.
Block(alias, port) ==
    << Line("begin", alias, 0), Line("body", alias, port), Line("end", alias, 0) >>

\* Mutant: the block is inserted after the first line.
PrependAfterFirst(content, block) ==
    IF TrimLeft(content) = <<>> THEN block
    ELSE <<Head(TrimLeft(content))>> \o block \o Tail(TrimLeft(content))

prependManagedBlock(content, block) ==
    LET trimmed == TrimLeft(content)
    IN  IF trimmed = <<>> THEN block ELSE block \o <<Blank>> \o trimmed

Marks(content, kind, alias) ==
    {i \in DOMAIN content : content[i].kind = kind
                               /\ content[i].name \in {alias} \cup ExtendedBy[alias]}

\* The begin markers of the alias, and the end markers that the search from the
\* first of them on can find.
Starts(content, alias) == Marks(content, "begin", alias)
Stops(content, alias) ==
    {i \in Marks(content, "end", alias) : \E j \in Starts(content, alias) : j < i}

\* What remains of the file from line stop on, when the search for the end
\* marker of alias has matched that line: nothing of the line itself and none of
\* the blank lines after it, or else the tail of a longer alias's marker.
AfterEnd(content, stop, alias) ==
    LET rest == SubSeq(content, stop + 1, Len(content))
    IN  IF content[stop].name = alias
          THEN TrimLeft(rest)
          ELSE <<Line("tail", content[stop].name, 0)>> \o rest

\* One turn of the loop of removeManagedBlock: without the first block.
removeManagedBlock(content, alias) ==
    SubSeq(content, 1, Min(Starts(content, alias)) - 1)
        \o AfterEnd(content, Min(Stops(content, alias)), alias)

\* Mutant: a begin marker without an end marker removes the rest of the file.
RemoveToEndOfFile(content, alias) ==
    IF Starts(content, alias) = {} THEN TrimLeft(content)
    ELSE SubSeq(content, 1, Min(Starts(content, alias)) - 1)

\* What the loop returns when it finds no block: after a begin marker that no end
\* marker follows, the content is left as it is.
NoBlockLeft(content, alias) ==
    IF Starts(content, alias) = {} THEN TrimLeft(content) ELSE content

-----------------------------------------------------------------------------
VARIABLES
    original,  \* the user's file before dev-connect was ever run
    file,      \* the user's file
    pc,        \* each command: idle, read, remove, truncate, write
    op,        \* its request: port 0 asks for removal
    read,      \* the content it has read, until that is compared with the new one
    new,       \* the content it is working on and going to write
    wanted,    \* history: the port of each alias's block, 0 for none, until disturbed
    disturbed  \* history: two commands overlapped, or a write was cut short

vars == <<original, file, pc, op, read, new, wanted, disturbed>>

NoOp == [alias |-> "", port |-> 0]

TypeOK ==
    /\ original \in Originals
    /\ file \in Seq(Lines)
    /\ pc \in [Commands -> {"idle", "read", "remove", "truncate", "write"}]
    /\ op \in [Commands -> [alias : Aliases, port : Ports \cup {0}] \cup {NoOp}]
    /\ read \in [Commands -> Seq(Lines)] /\ new \in [Commands -> Seq(Lines)]
    /\ wanted \in [Aliases -> Ports \cup {0}]
    /\ disturbed \in BOOLEAN

Init ==
    /\ original \in Originals
    /\ file = original
    /\ pc = [c \in Commands |-> "idle"]
    /\ op = [c \in Commands |-> NoOp]
    /\ read = [c \in Commands |-> <<>>] /\ new = [c \in Commands |-> <<>>]
    /\ wanted = [a \in Aliases |-> 0]
    /\ disturbed = FALSE

Done(c) ==
    /\ pc' = [pc EXCEPT ![c] = "idle"]
    /\ op' = [op EXCEPT ![c] = NoOp]
    /\ read' = [read EXCEPT ![c] = <<>>] /\ new' = [new EXCEPT ![c] = <<>>]

Achieved(c) ==
    wanted' = IF disturbed THEN wanted ELSE [wanted EXCEPT ![op[c].alias] = op[c].port]

Disturb(event) ==
    /\ disturbed' = (disturbed \/ event)
    /\ wanted' = IF disturbed \/ event THEN [a \in Aliases |-> 0] ELSE wanted

\* connect asks for a block, disconnect or a cleanup for its removal, for any alias
\* at any time.  That is more than the program does: with one session directory
\* connect gets here only when ensureNoActiveSession has found no live session and
\* has cleaned up a stale one, and a removal only ever names the recorded target.
\* The blocks of two aliases are then in the file together after a connect that was
\* killed between its UpsertManagedBlock and the save that records the block, or
\* when two session directories share the user's file.
Call(c, alias, port) ==
    /\ pc[c] = "idle"
    /\ pc' = [pc EXCEPT ![c] = "read"]
    /\ op' = [op EXCEPT ![c] = [alias |-> alias, port |-> port]]
    /\ Disturb(\E d \in Commands : pc[d] # "idle")
    /\ UNCHANGED <<original, file, read, new>>

Read(c) ==
    /\ pc[c] = "read"
    /\ pc' = [pc EXCEPT ![c] = "remove"]
    /\ read' = [read EXCEPT ![c] = file] /\ new' = [new EXCEPT ![c] = file]
    /\ UNCHANGED <<original, file, op, wanted, disturbed>>

RemoveBlock(c) ==
    /\ pc[c] = "remove" /\ Stops(new[c], op[c].alias) # {}
    /\ new' = [new EXCEPT ![c] = removeManagedBlock(new[c], op[c].alias)]
    /\ UNCHANGED <<original, file, pc, op, read, wanted, disturbed>>

\* Mutant: the block is prepended to the content as it was read.
UpdatedFromRead(c) ==
    IF op[c].port = 0 THEN NoBlockLeft(new[c], op[c].alias)
    ELSE prependManagedBlock(read[c], Block(op[c].alias, op[c].port))

\* Mutant: a removal prepends a block, without a port, like a connect.
UpdatedAlwaysPrepends(c) ==
    prependManagedBlock(NoBlockLeft(new[c], op[c].alias), Block(op[c].alias, op[c].port))

Updated(c) ==
    LET bare == NoBlockLeft(new[c], op[c].alias)
    IN  IF op[c].port = 0 THEN bare
        ELSE prependManagedBlock(bare, Block(op[c].alias, op[c].port))

\* The loop ends.  A removal that has changed nothing does not write.
Update(c) ==
    /\ pc[c] = "remove" /\ Stops(new[c], op[c].alias) = {}
    /\ IF op[c].port = 0 /\ Updated(c) = read[c]
         THEN Done(c) /\ Achieved(c)
         ELSE /\ pc' = [pc EXCEPT ![c] = "truncate"]
              /\ read' = [read EXCEPT ![c] = <<>>]
              /\ new' = [new EXCEPT ![c] = Updated(c)]
              /\ UNCHANGED <<op, wanted>>
    /\ UNCHANGED <<original, file, disturbed>>

Truncate(c) ==
    /\ pc[c] = "truncate"
    /\ file' = <<>>
    /\ pc' = [pc EXCEPT ![c] = "write"]
    /\ UNCHANGED <<original, op, read, new, wanted, disturbed>>

Write(c) ==
    /\ pc[c] = "write"
    /\ file' = new[c]
    /\ Done(c)
    /\ Achieved(c)
    /\ UNCHANGED <<original, disturbed>>

\* The command is killed, or the disk is full, between two steps.
Crash(c) ==
    /\ pc[c] # "idle"
    /\ Done(c)
    /\ Disturb(pc[c] = "write")
    /\ UNCHANGED <<original, file>>

Next ==
    \E c \in Commands :
        \/ \E a \in Aliases, p \in Ports \cup {0} : Call(c, a, p)
        \/ Read(c) \/ RemoveBlock(c) \/ Update(c)
        \/ Truncate(c) \/ Write(c) \/ Crash(c)

Spec == Init /\ [][Next]_vars

-----------------------------------------------------------------------------
(* Properties. *)

\* No command is running, none has overlapped with another one, and none was
\* killed between the truncation and the write of the file.
Settled == ~disturbed /\ \A c \in Commands : pc[c] = "idle"

\* The first n lines of a content hold none of the user.
NoUserLine(content, n) == \A i \in 1..n : content[i].kind # "user"

\* Between commands the file ends as the user's original does, and what comes
\* before holds no line of the user in either: all lines of the user are there,
\* in their order and with what is between them, after any sequence of connects,
\* disconnects and kills outside the write itself, and also when the file held a
\* block whose end marker is missing.
UserLinesKept ==
    Settled => \E n \in 0..Len(file), m \in 0..Len(original) :
                   /\ SubSeq(file, n + 1, Len(file))
                          = SubSeq(original, m + 1, Len(original))
                   /\ NoUserLine(file, n) /\ NoUserLine(original, m)

\* Places of complete blocks of an alias.
BlockAt(alias, port) ==
    {i \in DOMAIN file : i + 2 <= Len(file)
                            /\ SubSeq(file, i, i + 2) = Block(alias, port)}

\* Between commands the file holds exactly one complete block of every connected
\* alias, with the port of its last connect, and none of any other alias, so
\* ssh never resolves an alias to the port of an earlier session.  Call says how
\* two aliases come to be connected at once.
BlocksAsWanted ==
    Settled => \A a \in Aliases, p \in Ports :
                   Cardinality(BlockAt(a, p)) = (IF wanted[a] = p THEN 1 ELSE 0)

\* In no state, with overlapping commands and after any kill, does the file hold
\* two complete blocks of one alias: what one command writes over the other is
\* lost, but no port of an earlier session comes back beside the current one.
OneBlockPerAlias ==
    \A a \in Aliases : Cardinality(UNION {BlockAt(a, p) : p \in Ports}) <= 1

\* When the last alias is disconnected the file is the user's original again, up
\* to blank lines at its beginning.
OriginalRestored ==
    Settled /\ (\A a \in Aliases : wanted[a] = 0) => file \in {original, TrimLeft(original)}
=============================================================================
