--------------------------- MODULE FieldEncryption ---------------------------
(***************************************************************************)
(* One encrypted column of one row (packages/db: crypto.ts, encrypted-     *)
(* fields.ts), as the processes that share the database write and read it  *)
(* through their Prisma clients.  Each process has an environment of its   *)
(* own, read when it starts: encryption may be off, and two processes may  *)
(* hold different keys, the same key in other words, or none.              *)
(*                                                                         *)
(* A value is a text under layers of keys: none for a plain text, one for  *)
(* an envelope.  The JSON that two of the columns hold is a text here.     *)
(***************************************************************************)
EXTENDS Integers, Sequences

CONSTANTS Process,
          Text,
          Lookalike,  \* texts that begin with "enc:v1:"
          Setting,    \* environments: RC_ENCRYPTION_DISABLED, RC_ENCRYPTION_KEY
          KeyLen,
          None        \* SQL NULL

Environment == [on : BOOLEAN, material : Seq(Int)]
Value == [layers : Seq(Seq(Int)), text : Text]

\* What the constants are taken to be.
FieldAssumption ==
    /\ Lookalike \subseteq Text /\ None \notin Text \cup Value
    /\ Setting \subseteq Environment /\ KeyLen \in Nat \ {0}

VARIABLES env,    \* the environment of each process
          cell,   \* the column
          held,   \* the value each process read last
          meant,  \* the text last written, None for NULL
          by      \* the environment of the process that wrote it

vars == <<env, cell, held, meant, by>>

----------------------------------------------------------------------------
(* Keys and envelopes.                                                    *)

\* The first bytes of a long secret; a short one is stretched.
KeyOf(material) ==
    IF Len(material) >= KeyLen THEN SubSeq(material, 1, KeyLen) ELSE <<-1>> \o material
Keyed(p) == env[p].material # <<>>

Plain(t) == [layers |-> <<>>, text |-> t]
\* A check of the prefix only.
IsEncrypted(c) == c.layers # <<>> \/ c.text \in Lookalike

Sealing(p, c) == [c EXCEPT !.layers = <<KeyOf(env[p].material)>> \o @]
\* Mutant: what is sealed is sealed again.
SealAgain(p, c) == IF env[p].on THEN Sealing(p, c) ELSE c
\* encryptWriteFields, encrypt: an envelope is left alone.
Sealed(p, c) == IF env[p].on /\ ~IsEncrypted(c) THEN Sealing(p, c) ELSE c
\* Without a key the write throws before it reaches the database.
MayWrite(p, c) == c = None \/ ~env[p].on \/ IsEncrypted(c) \/ Keyed(p)

\* decrypt: a well-formed envelope, under this process's key.
Opens(p, c) == c.layers # <<>> /\ Keyed(p) /\ Head(c.layers) = KeyOf(env[p].material)
\* compute: what an application is handed; it never throws.
Seen(p) ==
    IF cell = None \/ ~env[p].on THEN cell
    ELSE IF ~IsEncrypted(cell) THEN cell
    ELSE IF Opens(p, cell) THEN [cell EXCEPT !.layers = Tail(@)] ELSE None

\* where: {sessionToken}: no transform reaches a where clause.
Finds(t) == cell = Plain(t)

----------------------------------------------------------------------------

\* A legacy row, written before the extension was there.
Init ==
    /\ env \in [Process -> Setting]
    /\ \E t \in Text : meant = t /\ cell = Plain(t)
    /\ held = [p \in Process |-> None]
    /\ by = [on |-> FALSE, material |-> <<>>]

Put(p, c, meaning) ==
    /\ cell' = c /\ meant' = meaning /\ by' = env[p]
    /\ UNCHANGED <<env, held>>

\* create, update: the payload's field, bare or in a {set} wrapper.
Write(p) == \E t \in Text : MayWrite(p, Plain(t)) /\ Put(p, Sealed(p, Plain(t)), t)

\* upsert with one payload object for create and update, walked twice in place.
Upsert(p) ==
    \E t \in Text : MayWrite(p, Plain(t)) /\ Put(p, Sealed(p, Sealed(p, Plain(t))), t)

Clear(p) == Put(p, None, None)

Fetch(p) ==
    /\ held' = [held EXCEPT ![p] = Seen(p)]
    /\ UNCHANGED <<env, cell, meant, by>>

\* The read-mutate-write round trip: what was read, perhaps long ago, goes back.
WriteBack(p) ==
    /\ held[p] # None /\ MayWrite(p, held[p])
    /\ Put(p, Sealed(p, held[p]), held[p].text)

\* A deployment: the process comes back under another environment.
Restart(p) ==
    /\ env' \in {[env EXCEPT ![p] = s] : s \in Setting}
    /\ held' = [held EXCEPT ![p] = None]
    /\ UNCHANGED <<cell, meant, by>>

Next == \E p \in Process :
    Write(p) \/ Upsert(p) \/ Clear(p) \/ Fetch(p) \/ WriteBack(p) \/ Restart(p)

Spec == Init /\ [][Next]_vars

----------------------------------------------------------------------------
(* Properties                                                             *)

TypeOK ==
    /\ env \in [Process -> Setting]
    /\ \A c \in {cell} \cup {held[p] : p \in Process} :
         c = None \/ (c.text \in Text /\ Len(c.layers) <= 1)
    /\ meant \in Text \cup {None} /\ by \in Environment

\* The text that was written, or nothing, never another one; and never an
\* envelope, to a process with encryption on.
NothingIsGarbled == \A p \in Process :
    Seen(p) # None => /\ Seen(p).text = meant
                      /\ env[p].on => Seen(p).layers = <<>>

\* Whatever other processes did in between, the holder of the writer's key can
\* read what was written, but for a text that looks like an envelope.
NothingIsLost == \A p \in Process :
    (/\ by.on /\ meant \notin Lookalike \cup {None}
     /\ env[p].on /\ Keyed(p) /\ KeyOf(env[p].material) = KeyOf(by.material)) => Seen(p) # None

\* What a process with encryption on wrote is at rest under its key, once.
SealedAtRest ==
    (by.on /\ meant \notin Lookalike \cup {None}) => cell.layers = <<KeyOf(by.material)>>

\* A reader gets what was written or nothing, whatever mix of keys, restarts and
\* round trips the column has seen; and what was sealed stays sealed, and so
\* cannot be found by its text.
ReadsAreHonest ==
    /\ NothingIsGarbled /\ NothingIsLost /\ SealedAtRest
    /\ by.on => \A t \in Text \ Lookalike : ~Finds(t)
=============================================================================
