----------------------------- MODULE TenantKeys -----------------------------
(* One organization's data key (trust/keys.py) and the transactions that meet
   on its row: pulls vaulting display names (trust/vault.py, backfill), calls
   recorded and documents stored under the key, the owner's erasure
   (trust/erasure.py, routers/trust.py) and the operator's recovery of a key no
   master key unwraps (trust/rekey.py).

   Sessions run READ COMMITTED: a read sees the committed row, or the session's
   own write; a second writer of a row waits until the first one ends.  One row
   of tenant_keys means one lock.  A data key is a number, minted in order; 0 is
   the blank wrapped_dek.  A ciphertext is the data key it was made under, and
   the plaintext columns the vault copies from are always there.  The master key
   (KEK) is the environment of a process: a rotation reaches one process after
   another, so two values may be in force together.                          *)
EXTENDS Integers, FiniteSets

CONSTANTS
  Sessions,    \* requests, pulls and command lines, each a transaction at a time
  Operators,   \* the sessions somebody may run the recovery from
  Entities,    \* customers, products and vendors with a display name
  Keks,        \* values of CREDENTIAL_ENCRYPTION_KEY
  Credential,  \* the one stored connection credentials decrypt under, or None
  MaxDeks,     \* bound: data keys minted
  MaxFaults,   \* bound: master keys rolled out and transactions lost, together
  None

ASSUME KeysAssumption ==
  /\ MaxDeks \in Nat /\ MaxFaults \in Nat
  /\ Operators \subseteq Sessions
  /\ Credential \in Keks \cup {None}

ASSUME NoneAssumption ==
  /\ None \notin Sessions \cup Entities \cup Keks
  /\ None \notin [dek : Nat, kek : Keks, destroyed : BOOLEAN]

ASSUME OneOperator == \A s, t \in Operators : s = t

VARIABLES
  key,      \* the committed row of tenant_keys, or None
  draft,    \* the row as the transaction holding `lock` leaves it
  lock,     \* who has inserted or updated the row and not ended yet
  vault,    \* name_vault, committed: entity -> data key of the name, 0 for no row
  vlock,    \* entity -> the transaction that wrote its row and has not ended
  log,      \* data keys that payloads and documents on file are under
  receipt,  \* an erasure receipt is on file
  job, pc, kek, cipher, todo, at,  \* per session: what it does and where it is
  running,  \* master keys in force in some process
  minted, faults,
  gone      \* history: data keys taken out of the row, by what and under what

row == <<key, draft, lock>>
store == <<vault, vlock, log, receipt>>
local == <<job, pc, kek, cipher, todo, at>>
env == <<running, faults>>
vars == <<key, draft, lock, vault, vlock, log, receipt, job, pc, kek, cipher,
          todo, at, running, minted, faults, gone>>

Jobs == {"provision", "backfill", "record", "erase", "rekey"}
Writers == {"provision", "backfill", "record"}
Deks == 1..MaxDeks
Rows == [dek : Deks \cup {0}, kek : Keks, destroyed : BOOLEAN]

TypeOK ==
  /\ key \in Rows \cup {None} /\ draft \in Rows \cup {None}
  /\ lock \in Sessions \cup {None}
  /\ vault \in [Entities -> Deks \cup {0}]
  /\ vlock \in [Entities -> Sessions \cup {None}]
  /\ log \subseteq Deks /\ receipt \in BOOLEAN
  /\ job \in [Sessions -> Jobs \cup {"idle"}]
  /\ pc \in [Sessions -> {"start", "insert", "lost", "count", "destroy",
                          "replace", "write"}]
  /\ kek \in [Sessions -> Keks \cup {None}]
  /\ cipher \in [Sessions -> Deks \cup {0}]
  /\ todo \in [Sessions -> SUBSET Entities]
  /\ at \in [Sessions -> Entities \cup {None}]
  /\ running \in SUBSET Keks /\ minted \in 0..MaxDeks
  /\ faults \in 0..MaxFaults
  /\ gone \in SUBSET [dek : Deks, kek : Keks, by : Keks, why : {"erase", "rekey"}]

Init ==
  /\ key = None /\ draft = None /\ lock = None
  /\ vault = [e \in Entities |-> 0] /\ vlock = [e \in Entities |-> None]
  /\ log = {} /\ receipt = FALSE
  /\ job = [s \in Sessions |-> "idle"] /\ pc = [s \in Sessions |-> "start"]
  /\ kek = [s \in Sessions |-> None] /\ cipher = [s \in Sessions |-> 0]
  /\ todo = [s \in Sessions |-> {}] /\ at = [s \in Sessions |-> None]
  /\ running \in {{k} : k \in Keks}
  /\ minted = 0 /\ faults = 0 /\ gone = {}

-----------------------------------------------------------------------------
(* What a session sees of the row. *)
View(s) == IF lock = s THEN draft ELSE key

(* keys.is_destroyed reads the tombstone; _dek and inspect take a row whose
   material is blank for destroyed as well. *)
Tombstone(r) == r # None /\ r.destroyed
Inert(r) == r.destroyed \/ r.dek = 0

(* keys._dek: the data key a master key k gets out of the row, 0 when the call
   raises KeyDestroyed or KeyUnavailable. *)
Unwrapped(r, k) == IF Inert(r) \/ r.kek # k THEN 0 ELSE r.dek

(* Mutant: anything with a row is a candidate. *)
UnreadableOrNot(r, k) == r # None /\ ~Inert(r)

(* keys.inspect answers KEY_UNREADABLE. *)
Unreadable(r, k) == r # None /\ ~Inert(r) /\ r.kek # k

(* rekey.master_key_is_current is not False. *)
MasterNotRefuted(k) == Credential \in {None, k}

(* Mutant: the material stays beside the tombstone. *)
BlankedNot(r) == [r EXCEPT !.destroyed = TRUE]
(* Mutant: reissuing writes the row it expects to find. *)
RewrappedWhole(r, d, k) == [dek |-> d, kek |-> k, destroyed |-> FALSE]

(* The columns keys.destroy and keys.reissue write; the unit of work sends no
   other, so each lands on whatever the row has become by then. *)
Blanked(r) == [r EXCEPT !.dek = 0, !.destroyed = TRUE]
Rewrapped(r, d, k) == [r EXCEPT !.dek = d, !.kek = k]


(* A session that waits for a row another one has written. *)
Waits(s, t) == at[s] # None /\ vlock[at[s]] = t /\ t # s

Unlock(s) == [e \in Entities |-> IF vlock[e] = s THEN None ELSE vlock[e]]
Ended(f, S, v) == [s \in Sessions |-> IF s \in S THEN v ELSE f[s]]

(* The local state of the sessions in S once their transactions are over. *)
Over(S) ==
  /\ job' = Ended(job, S, "idle") /\ pc' = Ended(pc, S, "start")
  /\ kek' = Ended(kek, S, None) /\ cipher' = Ended(cipher, S, 0)
  /\ todo' = Ended(todo, S, {}) /\ at' = Ended(at, S, None)

(* A rolled-back transaction leaves nothing but the locks it gives up. *)
Undo(S) ==
  /\ Over(S)
  /\ IF lock \in S THEN lock' = None /\ draft' = None
                   ELSE UNCHANGED <<lock, draft>>
  /\ UNCHANGED <<key, vault, log, receipt, minted, gone>>

RollBack(S) ==
  /\ Undo(S)
  /\ vlock' = [e \in Entities |-> IF vlock[e] \in S THEN None ELSE vlock[e]]

To(s, step) == pc' = [pc EXCEPT ![s] = step]

-----------------------------------------------------------------------------
(* A process with master key k starts a transaction.  All of ensure_key's
   callers start by reading the row. *)
Begin(s, j, k) ==
  /\ job[s] = "idle" /\ k \in running
  /\ j = "rekey" => s \in Operators
  /\ job' = [job EXCEPT ![s] = j] /\ kek' = [kek EXCEPT ![s] = k]
  /\ UNCHANGED <<row, store, pc, cipher, todo, at, env, minted, gone>>

(* ensure_key finds no row and makes one to insert. *)
Miss(s) ==
  /\ \/ job[s] \in Writers /\ pc[s] = "start"
     \/ job[s] = "erase" /\ pc[s] = "count"
  /\ View(s) = None
  /\ To(s, "insert")
  /\ UNCHANGED <<row, store, job, kek, cipher, todo, at, env, minted, gone>>

(* Where a session that has its key goes on: backfill loops over every named
   entity, in the order an unordered query returns them. *)
GoOn(s, d) ==
  /\ cipher' = [cipher EXCEPT ![s] = IF job[s] \in {"backfill", "record"} THEN d ELSE 0]
  /\ IF job[s] = "backfill" /\ Entities # {}
       THEN \E e \in Entities : /\ at' = [at EXCEPT ![s] = e]
                                /\ todo' = [todo EXCEPT ![s] = Entities \ {e}]
       ELSE UNCHANGED <<at, todo>>
  /\ To(s, IF job[s] = "erase" THEN "destroy" ELSE "write")
  /\ UNCHANGED <<job, kek>>

(* The insert in its savepoint.  An uncommitted row of another transaction
   makes it wait for that transaction to end; only then is there a verdict. *)
Insert(s) ==
  /\ pc[s] = "insert" /\ key = None /\ lock = None /\ minted < MaxDeks
  /\ draft' = [dek |-> minted + 1, kek |-> kek[s], destroyed |-> FALSE]
  /\ lock' = s /\ minted' = minted + 1
  /\ GoOn(s, minted + 1)
  /\ UNCHANGED <<key, store, env, gone>>

(* Mutant: the loser goes on with the key it made. *)
LoseInsertKeepKey(s) ==
  /\ pc[s] = "insert" /\ key # None /\ minted < MaxDeks
  /\ minted' = minted + 1
  /\ GoOn(s, minted + 1)
  /\ UNCHANGED <<row, store, env, gone>>

(* The unique constraint fires: the savepoint is undone and the winner's row
   read instead. *)
LoseInsert(s) ==
  /\ pc[s] = "insert" /\ key # None
  /\ To(s, "lost")
  /\ UNCHANGED <<row, store, job, kek, cipher, todo, at, env, minted, gone>>

(* cipher_for: one read of the row, one unwrap.  start_all only needs the row to
   be there. *)
Open(s) ==
  /\ job[s] \in Writers /\ pc[s] \in {"start", "lost"} /\ View(s) # None
  /\ LET d == Unwrapped(View(s), kek[s])
     IN IF job[s] # "provision" /\ d = 0 THEN Over({s}) ELSE GoOn(s, d)
  /\ UNCHANGED <<row, store, env, minted, gone>>

(* The next entry of the loop, if any. *)
NextEntry(s) ==
  IF todo[s] = {}
    THEN at' = [at EXCEPT ![s] = None] /\ UNCHANGED todo
    ELSE \E e \in todo[s] : /\ at' = [at EXCEPT ![s] = e]
                            /\ todo' = [todo EXCEPT ![s] = @ \ {e}]

(* Mutant: a name already vaulted is left as it is. *)
PutOnce(s) ==
  /\ pc[s] = "write" /\ at[s] # None /\ vlock[at[s]] \in {None, s}
  /\ vlock' = [vlock EXCEPT ![at[s]] = IF vault[at[s]] = 0 THEN s ELSE @]
  /\ NextEntry(s)
  /\ UNCHANGED <<row, vault, log, receipt, job, pc, kek, cipher, env, minted, gone>>

(* vault.put: the entry is inserted or overwritten, after whoever wrote it last
   has ended. *)
Put(s) ==
  /\ pc[s] = "write" /\ at[s] # None /\ vlock[at[s]] \in {None, s}
  /\ vlock' = [vlock EXCEPT ![at[s]] = s]
  /\ NextEntry(s)
  /\ UNCHANGED <<row, vault, log, receipt, job, pc, kek, cipher, env, minted, gone>>

(* post_erasure: a tenant already erased gets the receipt on file back. *)
Ask(s) ==
  /\ job[s] = "erase" /\ pc[s] = "start"
  /\ IF Tombstone(View(s))
       THEN Over({s})
       ELSE To(s, "count") /\ UNCHANGED <<job, kek, cipher, todo, at>>
  /\ UNCHANGED <<row, store, env, minted, gone>>

(* erase, past its manifest: destroy reads the row it will blank.  One already
   inert is returned as it is, and a receipt is written all the same. *)
Aim(s) ==
  /\ job[s] = "erase" /\ pc[s] \in {"count", "lost"} /\ View(s) # None
  /\ To(s, IF Tombstone(View(s)) THEN "write" ELSE "destroy")
  /\ UNCHANGED <<row, store, job, kek, cipher, todo, at, env, minted, gone>>

Destroy(s) ==
  /\ pc[s] = "destroy" /\ lock \in {None, s}
  /\ draft' = Blanked(View(s)) /\ lock' = s
  /\ To(s, "write")
  /\ UNCHANGED <<key, store, job, kek, cipher, todo, at, env, minted, gone>>

(* rekey.main --reissue, up to the last inspect: refused when the stored
   credentials do not decrypt under this master key either. *)
Inspect(s) ==
  /\ job[s] = "rekey" /\ pc[s] = "start"
  /\ IF MasterNotRefuted(kek[s]) /\ Unreadable(View(s), kek[s])
       THEN To(s, "replace") /\ UNCHANGED <<job, kek, cipher, todo, at>>
       ELSE Over({s})
  /\ UNCHANGED <<row, store, env, minted, gone>>

(* reissue's write, by primary key and unconditional. *)
Replace(s) ==
  /\ pc[s] = "replace" /\ lock = None /\ minted < MaxDeks
  /\ draft' = Rewrapped(key, minted + 1, kek[s]) /\ lock' = s
  /\ minted' = minted + 1
  /\ To(s, "write")
  /\ UNCHANGED <<key, store, job, kek, cipher, todo, at, env, gone>>

(* The transaction commits: the key row, the names, the payload and the receipt
   become visible together. *)
Commit(s) ==
  /\ job[s] # "idle" /\ pc[s] = "write" /\ at[s] = None
  /\ IF lock = s
       THEN /\ key' = draft /\ draft' = None /\ lock' = None
            /\ gone' = IF key # None /\ key.dek # 0
                         THEN gone \cup {[dek |-> key.dek, kek |-> key.kek,
                                          by |-> kek[s], why |-> job[s]]}
                         ELSE gone
       ELSE UNCHANGED <<row, gone>>
  /\ vault' = [e \in Entities |-> IF vlock[e] = s THEN cipher[s] ELSE vault[e]]
  /\ vlock' = Unlock(s)
  /\ log' = IF job[s] = "record" THEN log \cup {cipher[s]} ELSE log
  /\ receipt' = (receipt \/ job[s] = "erase")
  /\ Over({s})
  /\ UNCHANGED <<env, minted>>

(* An exception, a dropped connection, a killed process. *)
Abort(s) ==
  /\ job[s] # "idle" /\ faults < MaxFaults
  /\ faults' = faults + 1
  /\ RollBack({s})
  /\ UNCHANGED running

(* Two backfills that took the same entries in different orders: the database
   picks one and rolls it back, and the other, next in the queue, is granted the
   entry it waited for. *)
Victim(s) ==
  /\ \E t \in Sessions :
       /\ Waits(s, t) /\ Waits(t, s)
       /\ vlock' = [Unlock(s) EXCEPT ![at[t]] = t]
  /\ Undo({s})
  /\ UNCHANGED env

(* The environment changes, one process after another; the transactions of the
   last process on the old value end with it. *)
Deploy(k) ==
  /\ k \notin running /\ faults < MaxFaults
  /\ running' = running \cup {k} /\ faults' = faults + 1
  /\ UNCHANGED <<row, store, local, minted, gone>>

Retire(k) ==
  /\ k \in running /\ running # {k}
  /\ running' = running \ {k}
  /\ RollBack({s \in Sessions : kek[s] = k})
  /\ UNCHANGED faults

-----------------------------------------------------------------------------
SessionStep(s) ==
  \/ Miss(s) \/ Insert(s) \/ LoseInsert(s) \/ Open(s) \/ Put(s)
  \/ Ask(s) \/ Aim(s) \/ Destroy(s)
  \/ Inspect(s) \/ Replace(s)
  \/ Commit(s) \/ Victim(s)

Next ==
  \/ \E s \in Sessions : SessionStep(s) \/ Abort(s)
  \/ \E s \in Sessions, j \in Jobs, k \in Keks : Begin(s, j, k)
  \/ \E k \in Keks : Deploy(k) \/ Retire(k)

Spec == Init /\ [][Next]_vars

(* Statements are answered and transactions end; somebody keeps pulling, and an
   operator keeps looking at the keys, from processes with the credentials'
   master key. *)
Fairness ==
  /\ \A s \in Sessions : SF_vars(SessionStep(s))
  /\ SF_vars(\E s \in Sessions : Begin(s, "backfill", Credential))
  /\ SF_vars(\E s \in Operators : Begin(s, "rekey", Credential))

FairSpec == Spec /\ Fairness

-----------------------------------------------------------------------------
Ciphertexts == {vault[e] : e \in Entities} \cup log
Lost == {g.dek : g \in gone}

(* No write is orphaned by the race to create the key: whatever is on file opens
   under the key in the row, unless an erasure or a recovery took its key out
   (ensure_key's savepoint; cipher_for before the first encryption). *)
NoOrphanCiphertext ==
  \A c \in Ciphertexts \ {0} :
    key # None /\ (c = key.dek \/ c \in Lost)

(* Once the tombstone is committed nothing on file opens, neither through
   cipher_for under any master key nor with the material left in the row,
   whatever recoveries and writers were under way (keys.destroy, reissue). *)
ErasedStaysUnreadable ==
  Tombstone(key) =>
    /\ \A k \in Keks : Unwrapped(key, k) = 0
    /\ key.dek \notin Ciphertexts \ {0}

(* A receipt is on file exactly when the key is destroyed, and stays true of it
   (erasure.erase writes both in one transaction; reissue never revives). *)
ReceiptIffDestroyed == receipt <=> Tombstone(key)

(* A recovery never replaces a key that its own master key, or the one stored
   credentials prove right, still unwraps (keys.reissue, rekey.main), when one
   operator runs it at a time. *)
WorkingKeyKept ==
  \A g \in gone : g.why = "rekey" => g.kek # g.by /\ g.kek # Credential

(* A batch that opens its key after the tombstone is committed gets none, however
   it came to read the row; one opened earlier may finish (keys.TenantCipher). *)
DestroyHonoured ==
  [][\A s \in Sessions : cipher[s] = 0 /\ cipher'[s] # 0 => ~Tombstone(key)]_vars

(* Rotations, reissues, late commits and deadlocked backfills notwithstanding,
   the vault ends up readable under the key in the row, unless the tenant is
   erased or nothing runs under the credentials' master key any more. *)
VaultHeals ==
  <>[](\/ Credential \notin running
       \/ Tombstone(key)
       \/ key # None /\ \A e \in Entities : vault[e] = key.dek)
=============================================================================
