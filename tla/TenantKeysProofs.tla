-------------------------- MODULE TenantKeysProofs --------------------------
(***************************************************************************)
(* What holds of TenantKeys for any number of sessions, names and master    *)
(* keys, with any number of rotations and of transactions lost half-way.    *)
(***************************************************************************)
EXTENDS TenantKeys, TLAPS

(* What is in use: every ciphertext on file and every open cipher. *)
Used == (Ciphertexts \cup {cipher[s] : s \in Sessions}) \ {0}

(* The recovery by s may replace row r. *)
Spent(s, r) == r.dek = 0 \/ (r.kek # kek[s] /\ r.kek # Credential)

(* Where a session is, what it is doing and what it holds fit together. *)
Fits(s) ==
  /\ job[s] = "idle" => pc[s] = "start" /\ cipher[s] = 0
  /\ job[s] # "idle" => kek[s] \in Keks
  /\ job[s] = "rekey" => s \in Operators
  /\ pc[s] \in {"insert", "lost"} => job[s] \in Writers \cup {"erase"}
  /\ pc[s] = "lost" => key # None
  /\ pc[s] = "count" => job[s] = "erase"
  /\ pc[s] = "destroy" => job[s] = "erase" /\ View(s) # None
  /\ pc[s] = "replace" => job[s] = "rekey" /\ key # None /\ Spent(s, key)
  /\ cipher[s] # 0 <=> pc[s] = "write" /\ job[s] \in {"backfill", "record"}
  /\ at[s] # None => cipher[s] # 0
  /\ lock = s => pc[s] \in {"write", "destroy"}
  /\ \A e \in Entities : vlock[e] = s => cipher[s] # 0

(* The uncommitted row is what its writer makes of the committed one. *)
DraftFits ==
  /\ lock = None => draft = None
  /\ lock # None =>
       /\ draft # None
       /\ job[lock] \in Writers => key = None /\ ~draft.destroyed /\ draft.dek # 0
       /\ job[lock] = "erase" =>
            \/ draft.destroyed /\ draft.dek = 0
            \/ key = None /\ ~draft.destroyed /\ pc[lock] = "destroy"
       /\ job[lock] = "rekey" =>
            /\ key # None /\ draft.destroyed = key.destroyed
            /\ draft.dek # key.dek /\ draft.dek \notin Used
            /\ Spent(lock, key)

Minted ==
  /\ \A d \in Used : d <= minted
  /\ key # None => key.dek <= minted
  /\ draft # None => draft.dek <= minted

(* An open cipher is the key of the row, one taken out of it since, or the one
   its own transaction is creating. *)
CipherSound ==
  \A s \in Sessions : cipher[s] # 0 =>
    IF key = None THEN lock = s /\ draft.dek = cipher[s]
                  ELSE cipher[s] = key.dek \/ cipher[s] \in Lost

TombstoneUnused == Tombstone(key) => key.dek \notin Used

ErasePending ==
  \A s \in Sessions : job[s] = "erase" /\ pc[s] = "write" =>
    Tombstone(View(s))

IndInv ==
  /\ TypeOK /\ DraftFits /\ Minted /\ CipherSound /\ TombstoneUnused /\ ErasePending
  /\ \A s \in Sessions : Fits(s)
  /\ NoOrphanCiphertext /\ ReceiptIffDestroyed /\ WorkingKeyKept

LEMMA ShapeOf == ASSUME IndInv, NEW s \in Sessions PROVE Fits(s)
  BY DEF IndInv

LEMMA RowsNotNone == \A r \in Rows : r # None
<1>1. \A r \in Rows : r \in [dek : Nat, kek : Keks, destroyed : BOOLEAN]
  BY DEF Rows, Deks
<1> QED
  BY <1>1, NoneAssumption

LEMMA InitInd == Init => IndInv
<1> SUFFICES ASSUME Init PROVE IndInv
  OBVIOUS
<1>1. TypeOK
  <2>1. running \in SUBSET Keks
    BY DEF Init
  <2>2. /\ lock \in Sessions \cup {None} /\ vlock \in [Entities -> Sessions \cup {None}]
        /\ vault \in [Entities -> Deks \cup {0}] /\ cipher \in [Sessions -> Deks \cup {0}]
        /\ kek \in [Sessions -> Keks \cup {None}] /\ at \in [Sessions -> Entities \cup {None}]
    BY DEF Init
  <2>3. /\ job \in [Sessions -> Jobs \cup {"idle"}]
        /\ pc \in [Sessions -> {"start", "insert", "lost", "count", "destroy",
                                "replace", "write"}]
        /\ todo \in [Sessions -> SUBSET Entities]
    BY DEF Init
  <2>4. minted \in 0..MaxDeks /\ faults \in 0..MaxFaults
    BY KeysAssumption DEF Init
  <2>5. gone \in SUBSET [dek : Deks, kek : Keks, by : Keks, why : {"erase", "rekey"}]
    BY DEF Init
  <2> QED
    BY <2>1, <2>2, <2>3, <2>4, <2>5 DEF Init, TypeOK
<1>2. Ciphertexts \ {0} = {} /\ Used = {}
  BY DEF Init, Ciphertexts, Used
<1>3. \A s \in Sessions : Fits(s)
  BY NoneAssumption DEF Init, Fits, Writers, View
<1>4. DraftFits /\ Minted /\ CipherSound /\ TombstoneUnused /\ ErasePending
  BY <1>2 DEF Init, DraftFits, Minted, CipherSound, TombstoneUnused, ErasePending, Tombstone
<1>5. NoOrphanCiphertext /\ ReceiptIffDestroyed /\ WorkingKeyKept
  BY <1>2 DEF Init, NoOrphanCiphertext, ReceiptIffDestroyed, WorkingKeyKept, Tombstone
<1> QED
  BY <1>1, <1>3, <1>4, <1>5 DEF IndInv

-----------------------------------------------------------------------------
(* A step of s that leaves the row and the store alone and, if it gives s a
   cipher, takes it from a committed row that is not inert, keeps every part of
   the invariant that is not about s itself. *)
LEMMA LocalStep ==
  ASSUME IndInv, NEW s \in Sessions, lock # s,
         UNCHANGED <<row, store, minted, gone>>,
         \A t \in Sessions \ {s} : /\ job'[t] = job[t] /\ pc'[t] = pc[t]
                                   /\ kek'[t] = kek[t] /\ cipher'[t] = cipher[t]
                                   /\ at'[t] = at[t],
         \/ cipher'[s] \in {0, cipher[s]}
         \/ key # None /\ ~Inert(key) /\ cipher'[s] = key.dek
  PROVE  /\ \A t \in Sessions \ {s} : Fits(t)'
         /\ DraftFits' /\ Minted' /\ CipherSound' /\ TombstoneUnused'
         /\ NoOrphanCiphertext' /\ ReceiptIffDestroyed' /\ WorkingKeyKept'
         /\ \A t \in Sessions \ {s} : job'[t] = "erase" /\ pc'[t] = "write" =>
              Tombstone(View(t)')
<1>0. /\ key' = key /\ draft' = draft /\ lock' = lock /\ vault' = vault
      /\ vlock' = vlock /\ log' = log /\ receipt' = receipt
      /\ minted' = minted /\ gone' = gone
  BY DEF row, store
<1>1. /\ Ciphertexts' = Ciphertexts /\ Lost' = Lost
      /\ \A r : Tombstone(r)' = Tombstone(r)
      /\ \A t \in Sessions : View(t)' = View(t)
  BY <1>0 DEF Ciphertexts, Lost, Tombstone, View
<1>2. \A t \in Sessions \ {s} : Fits(t)'
  <2> SUFFICES ASSUME NEW t \in Sessions \ {s} PROVE Fits(t)'
    OBVIOUS
  <2> QED
    BY <1>0, <1>1, ShapeOf DEF Fits, Spent, View
<1>3. \A d \in Used' : d \in Used \/ (key # None /\ ~Inert(key) /\ d = key.dek)
  BY <1>1 DEF Used
<1>4. lock # None => lock \in Sessions \ {s}
  BY DEF IndInv, TypeOK
<1>5. DraftFits'
  BY <1>0, <1>3, <1>4 DEF IndInv, DraftFits, Spent
<1>6. Minted'
  BY <1>0, <1>3 DEF IndInv, Minted
<1>7. CipherSound'
  BY <1>0, <1>1 DEF IndInv, CipherSound
<1>8. TombstoneUnused'
  BY <1>0, <1>1, <1>3 DEF IndInv, TombstoneUnused, Tombstone, Inert
<1>9. NoOrphanCiphertext' /\ ReceiptIffDestroyed' /\ WorkingKeyKept'
  BY <1>0, <1>1 DEF IndInv, NoOrphanCiphertext, ReceiptIffDestroyed, WorkingKeyKept
<1>10. \A t \in Sessions \ {s} : job'[t] = "erase" /\ pc'[t] = "write" => Tombstone(View(t)')
  BY <1>0, <1>1 DEF IndInv, ErasePending, Tombstone, View
<1> QED
  BY <1>2, <1>5, <1>6, <1>7, <1>8, <1>9, <1>10

(* What is left to show of such a step. *)
LEMMA LocalClose ==
  ASSUME NEW s \in Sessions, TypeOK', Fits(s)',
         \A t \in Sessions \ {s} : Fits(t)',
         DraftFits' /\ Minted' /\ CipherSound' /\ TombstoneUnused',
         NoOrphanCiphertext' /\ ReceiptIffDestroyed' /\ WorkingKeyKept',
         \A t \in Sessions \ {s} : job'[t] = "erase" /\ pc'[t] = "write" =>
           Tombstone(View(t)'),
         job'[s] = "erase" /\ pc'[s] = "write" => Tombstone(View(s)')
  PROVE  IndInv'
  BY DEF IndInv, ErasePending, Tombstone, View

LEMMA BeginInd ==
  ASSUME IndInv, NEW s \in Sessions, NEW j \in Jobs, NEW k \in Keks, Begin(s, j, k)
  PROVE  IndInv'
<1>1. TypeOK'
  BY DEF IndInv, TypeOK, Begin, row, store, env
<1>2. Fits(s) /\ job[s] = "idle" /\ lock # s /\ pc[s] = "start" /\ cipher[s] = 0 /\ at[s] = None
  BY ShapeOf, NoneAssumption DEF Fits, Begin, IndInv, TypeOK
<1>3. /\ job'[s] = j /\ kek'[s] = k /\ pc' = pc /\ cipher' = cipher /\ at' = at
      /\ \A t \in Sessions \ {s} : job'[t] = job[t] /\ kek'[t] = kek[t]
  BY DEF IndInv, TypeOK, Begin
<1>4. UNCHANGED <<row, store, minted, gone>>
  BY DEF Begin
<1>5. Fits(s)'
  BY <1>2, <1>3, <1>4 DEF Fits, Begin, row, store, View
<1> QED
  BY <1>1, <1>2, <1>3, <1>4, <1>5, LocalStep, LocalClose

LEMMA MissInd ==
  ASSUME IndInv, NEW s \in Sessions, Miss(s)
  PROVE  IndInv'
<1>1. TypeOK'
  BY DEF IndInv, TypeOK, Miss, To, row, store, env
<1>2. Fits(s) /\ lock # s /\ cipher[s] = 0 /\ at[s] = None /\ pc[s] # "write"
  BY ShapeOf, NoneAssumption DEF Fits, Miss
<1>3. /\ job' = job /\ kek' = kek /\ cipher' = cipher /\ at' = at /\ pc'[s] = "insert"
      /\ \A t \in Sessions \ {s} : pc'[t] = pc[t]
  BY DEF IndInv, TypeOK, Miss, To
<1>4. UNCHANGED <<row, store, minted, gone>>
  BY DEF Miss
<1>5. Fits(s)'
  BY <1>2, <1>3, <1>4 DEF Fits, Miss, row, store, View, Writers
<1> QED
  BY <1>1, <1>2, <1>3, <1>4, <1>5, LocalStep, LocalClose

LEMMA LoseInsertInd ==
  ASSUME IndInv, NEW s \in Sessions, LoseInsert(s)
  PROVE  IndInv'
<1>1. TypeOK'
  BY DEF IndInv, TypeOK, LoseInsert, To, row, store, env
<1>2. Fits(s) /\ lock # s /\ cipher[s] = 0 /\ at[s] = None
  BY ShapeOf, NoneAssumption DEF Fits, LoseInsert
<1>3. /\ job' = job /\ kek' = kek /\ cipher' = cipher /\ at' = at /\ pc'[s] = "lost"
      /\ \A t \in Sessions \ {s} : pc'[t] = pc[t]
  BY DEF IndInv, TypeOK, LoseInsert, To
<1>4. UNCHANGED <<row, store, minted, gone>>
  BY DEF LoseInsert
<1>5. Fits(s)'
  BY <1>2, <1>3, <1>4 DEF Fits, LoseInsert, row, store, View
<1> QED
  BY <1>1, <1>2, <1>3, <1>4, <1>5, LocalStep, LocalClose

\* A transaction that ends leaves its session as it began.
LEMMA OverType ==
  ASSUME TypeOK, NEW S \in SUBSET Sessions, Over(S)
  PROVE  /\ job' \in [Sessions -> Jobs \cup {"idle"}]
         /\ pc' \in [Sessions -> {"start", "insert", "lost", "count", "destroy",
                                   "replace", "write"}]
         /\ kek' \in [Sessions -> Keks \cup {None}]
         /\ cipher' \in [Sessions -> Deks \cup {0}]
         /\ todo' \in [Sessions -> SUBSET Entities]
         /\ at' \in [Sessions -> Entities \cup {None}]
         /\ \A s \in S : /\ job'[s] = "idle" /\ pc'[s] = "start"
                          /\ cipher'[s] = 0 /\ at'[s] = None
         /\ \A s \in Sessions \ S :
              /\ job'[s] = job[s] /\ pc'[s] = pc[s] /\ kek'[s] = kek[s]
              /\ cipher'[s] = cipher[s] /\ at'[s] = at[s]
  BY DEF TypeOK, Over, Ended

\* Such a session fits wherever the row is, provided it has no lock.
LEMMA IdleFits ==
  ASSUME NEW s \in Sessions, job'[s] = "idle", pc'[s] = "start", cipher'[s] = 0,
         at'[s] = None, lock' # s, \A e \in Entities : vlock'[e] # s
  PROVE  Fits(s)'
  BY DEF Fits

LEMMA AskInd ==
  ASSUME IndInv, NEW s \in Sessions, Ask(s)
  PROVE  IndInv'
<1>1. Fits(s) /\ lock # s /\ cipher[s] = 0 /\ at[s] = None
      /\ \A e \in Entities : vlock[e] # s
  BY ShapeOf, NoneAssumption DEF Fits, Ask
<1>2. UNCHANGED <<row, store, minted, gone>> /\ UNCHANGED env
  BY DEF Ask
<1>3. CASE Over({s})
  <2>1. TypeOK'
    BY <1>2, <1>3, OverType DEF IndInv, TypeOK, row, store, env
  <2>2. Fits(s)'
    BY <1>1, <1>2, <1>3, OverType, IdleFits DEF IndInv, row, store
  <2> QED
    BY <1>1, <1>2, <1>3, <2>1, <2>2, OverType, LocalStep, LocalClose DEF IndInv
<1>4. CASE To(s, "count") /\ UNCHANGED <<job, kek, cipher, todo, at>>
  <2>1. TypeOK'
    BY <1>2, <1>4 DEF IndInv, TypeOK, To, row, store, env
  <2>2. pc'[s] = "count" /\ \A t \in Sessions \ {s} : pc'[t] = pc[t]
    BY <1>4 DEF IndInv, TypeOK, To
  <2>3. Fits(s)'
    BY <1>1, <1>2, <1>4, <2>2 DEF Fits, Ask, row, store, View
  <2> QED
    BY <1>1, <1>2, <1>4, <2>1, <2>2, <2>3, LocalStep, LocalClose
<1> QED
  BY <1>3, <1>4 DEF Ask

LEMMA AimInd ==
  ASSUME IndInv, NEW s \in Sessions, Aim(s)
  PROVE  IndInv'
<1>1. TypeOK'
  BY DEF IndInv, TypeOK, Aim, To, row, store, env
<1>2. Fits(s) /\ lock # s /\ cipher[s] = 0 /\ at[s] = None /\ job[s] = "erase"
  BY ShapeOf, NoneAssumption DEF Fits, Aim
<1>3. /\ job' = job /\ kek' = kek /\ cipher' = cipher /\ at' = at
      /\ pc'[s] = IF Tombstone(View(s)) THEN "write" ELSE "destroy"
      /\ \A t \in Sessions \ {s} : pc'[t] = pc[t]
  BY DEF IndInv, TypeOK, Aim, To
<1>4. UNCHANGED <<row, store, minted, gone>>
  BY DEF Aim
<1>5. View(s)' = View(s) /\ Tombstone(View(s)') = Tombstone(View(s)) /\ View(s) # None
  BY <1>4 DEF row, View, Tombstone, Aim
<1>6. Fits(s)'
  BY <1>2, <1>3, <1>4, <1>5 DEF Fits, row, store, Writers
<1>7. job'[s] = "erase" /\ pc'[s] = "write" => Tombstone(View(s)')
  BY <1>3, <1>5
<1> QED
  BY <1>1, <1>2, <1>3, <1>4, <1>6, <1>7, LocalStep, LocalClose

LEMMA InspectInd ==
  ASSUME IndInv, NEW s \in Sessions, Inspect(s)
  PROVE  IndInv'
<1>1. Fits(s) /\ lock # s /\ cipher[s] = 0 /\ at[s] = None /\ job[s] = "rekey"
      /\ \A e \in Entities : vlock[e] # s
  BY ShapeOf, NoneAssumption DEF Fits, Inspect
<1>2. UNCHANGED <<row, store, minted, gone>> /\ UNCHANGED env
  BY DEF Inspect
<1>3. CASE Over({s})
  <2>1. TypeOK'
    BY <1>2, <1>3, OverType DEF IndInv, TypeOK, row, store, env
  <2>2. Fits(s)'
    BY <1>1, <1>2, <1>3, OverType, IdleFits DEF IndInv, row, store
  <2> QED
    BY <1>1, <1>2, <1>3, <2>1, <2>2, OverType, LocalStep, LocalClose DEF IndInv
<1>4. CASE /\ MasterNotRefuted(kek[s]) /\ Unreadable(View(s), kek[s])
           /\ To(s, "replace") /\ UNCHANGED <<job, kek, cipher, todo, at>>
  <2>1. TypeOK'
    BY <1>2, <1>4 DEF IndInv, TypeOK, To, row, store, env
  <2>2. pc'[s] = "replace" /\ \A t \in Sessions \ {s} : pc'[t] = pc[t]
    BY <1>4 DEF IndInv, TypeOK, To
  <2>3. key # None /\ Spent(s, key)
    <3>1. View(s) = key
      BY <1>1 DEF View
    <3>2. key # None /\ key.kek # kek[s] /\ key \in Rows
      BY <1>4, <3>1 DEF Unreadable, IndInv, TypeOK
    <3>3. key.kek \in Keks
      BY <3>2 DEF Rows
    <3> QED
      BY <1>4, <3>2, <3>3, NoneAssumption DEF MasterNotRefuted, Spent
  <2>4. Fits(s)'
    BY <1>1, <1>2, <1>4, <2>2, <2>3 DEF Fits, row, store, Spent, Writers
  <2> QED
    BY <1>1, <1>2, <1>4, <2>1, <2>2, <2>4, LocalStep, LocalClose
<1> QED
  BY <1>3, <1>4 DEF Inspect

\* A session that has its key is at its first write.
LEMMA GoOnType ==
  ASSUME TypeOK, NEW s \in Sessions, NEW d \in Deks \cup {0}, GoOn(s, d)
  PROVE  /\ job' = job /\ kek' = kek
         /\ pc' \in [Sessions -> {"start", "insert", "lost", "count", "destroy",
                                   "replace", "write"}]
         /\ cipher' \in [Sessions -> Deks \cup {0}]
         /\ todo' \in [Sessions -> SUBSET Entities]
         /\ at' \in [Sessions -> Entities \cup {None}]
         /\ cipher'[s] = IF job[s] \in {"backfill", "record"} THEN d ELSE 0
         /\ pc'[s] = IF job[s] = "erase" THEN "destroy" ELSE "write"
         /\ at'[s] = at[s] \/ job[s] = "backfill"
         /\ \A t \in Sessions \ {s} :
              cipher'[t] = cipher[t] /\ pc'[t] = pc[t] /\ at'[t] = at[t]
<1>1. /\ job' = job /\ kek' = kek
      /\ cipher' = [cipher EXCEPT ![s] = IF job[s] \in {"backfill", "record"} THEN d ELSE 0]
      /\ pc' = [pc EXCEPT ![s] = IF job[s] = "erase" THEN "destroy" ELSE "write"]
  BY DEF GoOn, To
<1>2. CASE job[s] = "backfill" /\ Entities # {}
  <2>1. PICK e \in Entities : /\ at' = [at EXCEPT ![s] = e]
                              /\ todo' = [todo EXCEPT ![s] = Entities \ {e}]
    BY <1>2 DEF GoOn
  <2> QED
    BY <1>1, <1>2, <2>1 DEF TypeOK
<1>3. CASE ~(job[s] = "backfill" /\ Entities # {})
  <2>1. UNCHANGED <<at, todo>>
    BY <1>3 DEF GoOn
  <2> QED
    BY <1>1, <2>1 DEF TypeOK
<1> QED
  BY <1>2, <1>3

LEMMA OpenInd ==
  ASSUME IndInv, NEW s \in Sessions, Open(s)
  PROVE  IndInv'
<1> DEFINE d == Unwrapped(View(s), kek[s])
<1>1. Fits(s) /\ lock # s /\ cipher[s] = 0 /\ at[s] = None /\ job[s] \in Writers
      /\ \A e \in Entities : vlock[e] # s
  BY ShapeOf, NoneAssumption DEF Fits, Open
<1>2. UNCHANGED <<row, store, minted, gone>> /\ UNCHANGED env
  BY DEF Open
<1>3. key # None /\ key \in Rows /\ d = IF Inert(key) \/ key.kek # kek[s] THEN 0 ELSE key.dek
  BY <1>1 DEF Open, View, Unwrapped, IndInv, TypeOK
<1>4. d \in Deks \cup {0}
  BY <1>3 DEF Rows
<1>5. CASE Over({s})
  <2>1. TypeOK'
    BY <1>2, <1>5, OverType DEF IndInv, TypeOK, row, store, env
  <2>2. Fits(s)'
    BY <1>1, <1>2, <1>5, OverType, IdleFits DEF IndInv, row, store
  <2> QED
    BY <1>1, <1>2, <1>5, <2>1, <2>2, OverType, LocalStep, LocalClose DEF IndInv
<1>6. CASE GoOn(s, d) /\ (job[s] = "provision" \/ d # 0)
  <2> HIDE DEF d
  <2>1. TypeOK'
    BY <1>2, <1>4, <1>6, GoOnType DEF IndInv, TypeOK, row, store, env
  <2>2. Fits(s)'
    BY <1>1, <1>2, <1>4, <1>6, GoOnType DEF IndInv, Fits, row, store, Writers, Jobs
  <2>3. \/ cipher'[s] \in {0, cipher[s]}
        \/ key # None /\ ~Inert(key) /\ cipher'[s] = key.dek
    BY <1>3, <1>4, <1>6, GoOnType DEF IndInv
  <2>4. job'[s] # "erase"
    BY <1>1, <1>4, <1>6, GoOnType DEF IndInv, Writers
  <2>5. \A t \in Sessions \ {s} : /\ job'[t] = job[t] /\ pc'[t] = pc[t]
                                   /\ kek'[t] = kek[t] /\ cipher'[t] = cipher[t]
                                   /\ at'[t] = at[t]
    BY <1>4, <1>6, GoOnType DEF IndInv
  <2> QED
    BY <1>1, <1>2, <2>1, <2>2, <2>3, <2>4, <2>5, LocalStep, LocalClose
<1> QED
  BY <1>5, <1>6 DEF Open

-----------------------------------------------------------------------------
(* The steps that write. *)
LEMMA MintedFacts ==
  ASSUME IndInv
  PROVE  /\ minted \in Nat /\ MaxDeks \in Nat
         /\ minted < MaxDeks => minted + 1 \in Deks
         /\ \A d \in Used : d \in Nat /\ d # minted + 1 /\ d <= minted + 1
         /\ key # None => key \in Rows /\ key.dek \in Nat /\ key.dek # minted + 1
                         /\ key.dek <= minted + 1
<1>1. minted \in Nat /\ MaxDeks \in Nat
  BY KeysAssumption DEF IndInv, TypeOK
<1>2. \A d \in Used : d \in Nat
  <2>1. /\ \A e \in Entities : vault[e] \in Nat
        /\ \A s \in Sessions : cipher[s] \in Nat
        /\ \A d \in log : d \in Nat
    BY DEF IndInv, TypeOK, Deks
  <2> QED
    BY <2>1 DEF Used, Ciphertexts
<1>3. key # None => key \in Rows /\ key.dek \in Nat
  BY DEF IndInv, TypeOK, Rows, Deks
<1> QED
  BY <1>1, <1>2, <1>3 DEF IndInv, Minted, Deks

LEMMA InsertInd ==
  ASSUME IndInv, NEW s \in Sessions, Insert(s)
  PROVE  IndInv'
<1> DEFINE d == minted + 1
<1>1. Fits(s) /\ lock = None /\ key = None /\ cipher[s] = 0 /\ at[s] = None
      /\ job[s] \in Writers \cup {"erase"} /\ kek[s] \in Keks
      /\ \A e \in Entities : vlock[e] # s
  BY ShapeOf, NoneAssumption DEF Fits, Insert, Writers
<1>2. /\ key' = key /\ store' = store /\ gone' = gone /\ env' = env
      /\ lock' = s /\ minted' = d
      /\ draft' = [dek |-> d, kek |-> kek[s], destroyed |-> FALSE]
  BY DEF Insert, store, env
<1>3. d \in Deks /\ GoOn(s, d) /\ d # 0
  BY MintedFacts DEF Insert, Deks
<1>4. draft' \in Rows /\ draft' # None /\ draft'.dek = d /\ ~draft'.destroyed
  <2>1. draft' \in Rows
    BY <1>1, <1>2, <1>3 DEF Rows
  <2>2. draft'.dek = d /\ ~draft'.destroyed
    BY <1>2
  <2>3. draft' # None
    BY <2>1, RowsNotNone
  <2> QED
    BY <2>1, <2>2, <2>3
<1> HIDE DEF d
<1>5. TypeOK'
  BY <1>2, <1>3, <1>4, GoOnType, MintedFacts DEF IndInv, TypeOK, store, env, Deks
<1>6. /\ \A t \in Sessions : cipher[t] = 0
      /\ Ciphertexts \ {0} = {} /\ Used = {}
  <2>1. \A t \in Sessions : cipher[t] = 0
    BY <1>1, NoneAssumption DEF IndInv, CipherSound
  <2>2. Ciphertexts \ {0} = {}
    BY <1>1 DEF IndInv, NoOrphanCiphertext
  <2> QED
    BY <2>1, <2>2 DEF Used
<1>7. Ciphertexts' = Ciphertexts /\ Lost' = Lost
  BY <1>2 DEF Ciphertexts, Lost, store
<1>8. \A t \in Sessions \ {s} :
        /\ job'[t] = job[t] /\ pc'[t] = pc[t] /\ kek'[t] = kek[t]
        /\ cipher'[t] = cipher[t] /\ at'[t] = at[t] /\ cipher[t] = 0
  BY <1>3, <1>6, GoOnType DEF IndInv
<1>9. /\ cipher'[s] = IF job[s] \in {"backfill", "record"} THEN d ELSE 0
      /\ pc'[s] = IF job[s] = "erase" THEN "destroy" ELSE "write"
      /\ job' = job /\ kek' = kek /\ (at'[s] = None \/ job[s] = "backfill")
  BY <1>1, <1>3, GoOnType DEF IndInv
<1>10. \A t \in Sessions : Fits(t)'
  <2>1. Fits(s)'
    BY <1>1, <1>2, <1>3, <1>4, <1>9 DEF Fits, Writers, View, store
  <2>2. ASSUME NEW t \in Sessions \ {s} PROVE Fits(t)'
    BY <1>1, <1>2, <1>8, <1>9, <2>2, ShapeOf, NoneAssumption DEF Fits, View, store, Spent
  <2> QED
    BY <2>1, <2>2
<1>11. DraftFits'
  BY <1>1, <1>2, <1>3, <1>4, <1>9, NoneAssumption DEF DraftFits, Writers
<1>12. Minted'
  <2>1. \A c \in Used' : c = d
    BY <1>6, <1>7, <1>8, <1>9 DEF Used
  <2> QED
    BY <1>1, <1>2, <1>3, <1>4, <2>1 DEF Minted, Deks
<1>13. CipherSound'
  BY <1>1, <1>2, <1>4, <1>8, <1>9 DEF CipherSound
<1>14. TombstoneUnused' /\ ReceiptIffDestroyed' /\ WorkingKeyKept'
  BY <1>1, <1>2 DEF IndInv, TombstoneUnused, ReceiptIffDestroyed, WorkingKeyKept, Tombstone, store
<1>15. ErasePending'
  BY <1>2, <1>8, <1>9, NoneAssumption, <1>1 DEF IndInv, ErasePending, View, Tombstone
<1>16. NoOrphanCiphertext'
  BY <1>6, <1>7 DEF NoOrphanCiphertext
<1> QED
  BY <1>5, <1>10, <1>11, <1>12, <1>13, <1>14, <1>15, <1>16 DEF IndInv

LEMMA DestroyInd ==
  ASSUME IndInv, NEW s \in Sessions, Destroy(s)
  PROVE  IndInv'
<1>1. Fits(s) /\ lock \in {None, s} /\ cipher[s] = 0 /\ at[s] = None
      /\ job[s] = "erase" /\ pc[s] = "destroy" /\ View(s) # None
      /\ \A e \in Entities : vlock[e] # s
  BY ShapeOf, NoneAssumption DEF Fits, Destroy
<1>2. /\ key' = key /\ store' = store /\ gone' = gone /\ env' = env /\ minted' = minted
      /\ lock' = s /\ draft' = Blanked(View(s))
      /\ job' = job /\ kek' = kek /\ cipher' = cipher /\ todo' = todo /\ at' = at
  BY DEF Destroy, store, env
<1>3. /\ pc'[s] = "write" /\ \A t \in Sessions \ {s} : pc'[t] = pc[t]
      /\ pc' \in [Sessions -> {"start", "insert", "lost", "count", "destroy",
                               "replace", "write"}]
  BY DEF Destroy, To, IndInv, TypeOK
<1>4. draft' \in Rows /\ draft'.dek = 0 /\ draft'.destroyed /\ draft' # None
  <2>1. View(s) \in Rows
    BY <1>1 DEF View, IndInv, TypeOK
  <2>2. draft' \in Rows /\ draft'.dek = 0 /\ draft'.destroyed
    BY <1>2, <2>1 DEF Blanked, Rows
  <2> QED
    BY <2>2, RowsNotNone
<1>5. TypeOK'
  BY <1>2, <1>3, <1>4 DEF IndInv, TypeOK, store, env
<1>6. Used' = Used /\ Ciphertexts' = Ciphertexts /\ Lost' = Lost
  BY <1>2 DEF Used, Ciphertexts, Lost, store
<1>7. \A t \in Sessions : Fits(t)'
  <2>1. Fits(s)'
    BY <1>1, <1>2, <1>3 DEF Fits, Writers, store
  <2>2. ASSUME NEW t \in Sessions \ {s} PROVE Fits(t)'
    BY <1>1, <1>2, <1>3, <2>2, ShapeOf DEF Fits, View, store, Spent
  <2> QED
    BY <2>1, <2>2
<1>8. DraftFits'
  BY <1>1, <1>2, <1>4, NoneAssumption DEF DraftFits, Writers
<1>9. Minted'
  BY <1>2, <1>4, <1>6, MintedFacts DEF IndInv, Minted
<1>10. CipherSound'
  <2>1. \A t \in Sessions : cipher[t] # 0 => key # None
    BY <1>1, NoneAssumption DEF IndInv, CipherSound
  <2> QED
    BY <1>2, <1>6, <2>1 DEF IndInv, CipherSound
<1>11. TombstoneUnused' /\ ReceiptIffDestroyed' /\ WorkingKeyKept'
  BY <1>2, <1>6 DEF IndInv, TombstoneUnused, ReceiptIffDestroyed, WorkingKeyKept, Tombstone, store
<1>12. ErasePending'
  BY <1>1, <1>2, <1>3, <1>4, NoneAssumption DEF IndInv, ErasePending, View, Tombstone
<1>13. NoOrphanCiphertext'
  BY <1>2, <1>6 DEF IndInv, NoOrphanCiphertext
<1> QED
  BY <1>5, <1>7, <1>8, <1>9, <1>10, <1>11, <1>12, <1>13 DEF IndInv

LEMMA ReplaceInd ==
  ASSUME IndInv, NEW s \in Sessions, Replace(s)
  PROVE  IndInv'
<1> DEFINE d == minted + 1
<1>1. Fits(s) /\ lock = None /\ draft = None /\ cipher[s] = 0 /\ at[s] = None
      /\ job[s] = "rekey" /\ pc[s] = "replace" /\ key # None /\ Spent(s, key)
      /\ kek[s] \in Keks /\ \A e \in Entities : vlock[e] # s
  BY ShapeOf, NoneAssumption DEF Fits, Replace, IndInv, DraftFits
<1>2. /\ key' = key /\ store' = store /\ gone' = gone /\ env' = env /\ minted' = d
      /\ lock' = s /\ draft' = Rewrapped(key, d, kek[s])
      /\ job' = job /\ kek' = kek /\ cipher' = cipher /\ todo' = todo /\ at' = at
  BY DEF Replace, store, env
<1>3. /\ pc'[s] = "write" /\ \A t \in Sessions \ {s} : pc'[t] = pc[t]
      /\ pc' \in [Sessions -> {"start", "insert", "lost", "count", "destroy",
                               "replace", "write"}]
  BY DEF Replace, To, IndInv, TypeOK
<1>4. d \in Deks /\ d # 0 /\ key \in Rows /\ d # key.dek /\ d \notin Used
      /\ minted \in Nat /\ key.dek <= d /\ \A c \in Used : c <= d
  BY <1>1, MintedFacts DEF Replace, Deks
<1> HIDE DEF d
<1>5. draft' \in Rows /\ draft'.dek = d /\ draft'.destroyed = key.destroyed /\ draft' # None
  <2>1. draft' \in Rows /\ draft'.dek = d /\ draft'.destroyed = key.destroyed
    BY <1>1, <1>2, <1>4 DEF Rewrapped, Rows
  <2> QED
    BY <2>1, RowsNotNone
<1>6. TypeOK'
  BY <1>2, <1>3, <1>4, <1>5, MintedFacts DEF IndInv, TypeOK, store, env, Deks
<1>7. Used' = Used /\ Ciphertexts' = Ciphertexts /\ Lost' = Lost
  BY <1>2 DEF Used, Ciphertexts, Lost, store
<1>8. \A t \in Sessions : Fits(t)'
  <2>1. Fits(s)'
    BY <1>1, <1>2, <1>3 DEF Fits, Writers, store
  <2>2. ASSUME NEW t \in Sessions \ {s} PROVE Fits(t)'
    BY <1>1, <1>2, <1>3, <2>2, ShapeOf DEF Fits, View, store, Spent
  <2> QED
    BY <2>1, <2>2
<1>9. DraftFits'
  BY <1>1, <1>2, <1>4, <1>5, <1>7, NoneAssumption DEF DraftFits, Writers, Spent
<1>10. Minted'
  BY <1>2, <1>4, <1>5, <1>7 DEF Minted, Deks
<1>11. CipherSound'
  BY <1>1, <1>2, <1>7 DEF IndInv, CipherSound
<1>12. TombstoneUnused' /\ ReceiptIffDestroyed' /\ WorkingKeyKept'
  BY <1>2, <1>7 DEF IndInv, TombstoneUnused, ReceiptIffDestroyed, WorkingKeyKept, Tombstone, store
<1>13. ErasePending'
  BY <1>1, <1>2, <1>3, NoneAssumption DEF IndInv, ErasePending, View, Tombstone
<1>14. NoOrphanCiphertext'
  BY <1>2, <1>7 DEF IndInv, NoOrphanCiphertext
<1> QED
  BY <1>6, <1>8, <1>9, <1>10, <1>11, <1>12, <1>13, <1>14 DEF IndInv

LEMMA PutInd ==
  ASSUME IndInv, NEW s \in Sessions, Put(s)
  PROVE  IndInv'
<1>1. Fits(s) /\ at[s] \in Entities /\ cipher[s] # 0 /\ vlock[at[s]] \in {None, s}
  BY ShapeOf DEF Fits, Put, IndInv, TypeOK
<1>2. /\ key' = key /\ draft' = draft /\ lock' = lock /\ vault' = vault /\ log' = log
      /\ receipt' = receipt /\ job' = job /\ pc' = pc /\ kek' = kek /\ cipher' = cipher
      /\ env' = env /\ minted' = minted /\ gone' = gone
  BY DEF Put, row, env
<1>3. /\ vlock' \in [Entities -> Sessions \cup {None}]
      /\ \A e \in Entities : vlock'[e] = IF e = at[s] THEN s ELSE vlock[e]
  BY <1>1 DEF Put, IndInv, TypeOK
<1>4. /\ at' \in [Sessions -> Entities \cup {None}] /\ todo' \in [Sessions -> SUBSET Entities]
      /\ \A t \in Sessions \ {s} : at'[t] = at[t]
  <2>1. CASE todo[s] = {}
    BY <2>1 DEF Put, NextEntry, IndInv, TypeOK
  <2>2. CASE todo[s] # {}
    <3>1. PICK e \in todo[s] : /\ at' = [at EXCEPT ![s] = e]
                               /\ todo' = [todo EXCEPT ![s] = todo[s] \ {e}]
      BY <2>2 DEF Put, NextEntry
    <3> QED
      BY <3>1 DEF IndInv, TypeOK
  <2> QED
    BY <2>1, <2>2
<1>5. TypeOK'
  BY <1>2, <1>3, <1>4 DEF IndInv, TypeOK, env
<1>6. \A t \in Sessions : Fits(t)'
  <2> SUFFICES ASSUME NEW t \in Sessions PROVE Fits(t)'
    OBVIOUS
  <2> QED
    BY <1>1, <1>2, <1>3, <1>4, ShapeOf DEF Fits, View, Spent
<1>7. Used' = Used /\ Ciphertexts' = Ciphertexts /\ Lost' = Lost
  BY <1>2 DEF Used, Ciphertexts, Lost
<1>8. DraftFits' /\ Minted' /\ CipherSound'
  BY <1>2, <1>7 DEF IndInv, DraftFits, Minted, CipherSound, Spent
<1>9. TombstoneUnused' /\ ErasePending' /\ NoOrphanCiphertext' /\ ReceiptIffDestroyed' /\ WorkingKeyKept'
  BY <1>2, <1>7 DEF IndInv, TombstoneUnused, ErasePending, NoOrphanCiphertext,
                    ReceiptIffDestroyed, WorkingKeyKept, Tombstone, View
<1> QED
  BY <1>5, <1>6, <1>8, <1>9 DEF IndInv

LEMMA CommitInd ==
  ASSUME IndInv, NEW s \in Sessions, Commit(s)
  PROVE  IndInv'
<1>1. /\ Fits(s) /\ job[s] # "idle" /\ pc[s] = "write" /\ s # None
      /\ job[s] \in Jobs /\ kek[s] \in Keks
  BY ShapeOf, NoneAssumption DEF Commit, Fits, IndInv, TypeOK
<1>2. /\ \A e \in Entities : vault'[e] = IF vlock[e] = s THEN cipher[s] ELSE vault[e]
      /\ \A e \in Entities : vlock'[e] = IF vlock[e] = s THEN None ELSE vlock[e]
      /\ vault' \in [Entities -> Deks \cup {0}]
      /\ vlock' \in [Entities -> Sessions \cup {None}]
  BY DEF Commit, Unlock, IndInv, TypeOK
<1>3. /\ log' = IF job[s] = "record" THEN log \cup {cipher[s]} ELSE log
      /\ receipt' = (receipt \/ job[s] = "erase")
      /\ running' = running /\ faults' = faults /\ minted' = minted
  BY DEF Commit, env
<1>4. job[s] = "record" => cipher[s] \in Deks
  BY <1>1 DEF Fits, IndInv, TypeOK
<1>5. Over({s})
  BY DEF Commit
<1>6. /\ job'[s] = "idle" /\ pc'[s] = "start" /\ cipher'[s] = 0 /\ at'[s] = None
      /\ \A t \in Sessions \ {s} :
           /\ job'[t] = job[t] /\ pc'[t] = pc[t] /\ kek'[t] = kek[t]
           /\ cipher'[t] = cipher[t] /\ at'[t] = at[t]
  BY <1>5, OverType DEF IndInv
<1>7. \A c \in Ciphertexts' \ {0} : c \in Ciphertexts \/ c = cipher[s]
  BY <1>2, <1>3 DEF Ciphertexts
<1>8. Used' \subseteq Used
  BY <1>6, <1>7 DEF Used
<1>9. cipher[s] # 0 => job[s] \in {"backfill", "record"}
  BY <1>1 DEF Fits
<1>10. CASE lock # s
  <2>1. key' = key /\ draft' = draft /\ lock' = lock /\ gone' = gone
    BY <1>10 DEF Commit, row
  <2>2. TypeOK'
    BY <1>2, <1>3, <1>4, <1>5, <2>1, OverType DEF IndInv, TypeOK
  <2>3. \A t \in Sessions : Fits(t)'
    <3>1. Fits(s)'
      BY <1>2, <1>6, <1>10, <2>1, <1>1, IdleFits
    <3>2. ASSUME NEW t \in Sessions \ {s} PROVE Fits(t)'
      BY <1>2, <1>6, <2>1, <3>2, ShapeOf, NoneAssumption DEF Fits, View, Spent
    <3> QED
      BY <3>1, <3>2
  <2>4. lock # None => lock \in Sessions \ {s}
    BY <1>10 DEF IndInv, TypeOK
  <2>5. DraftFits'
    BY <1>6, <1>8, <2>1, <2>4 DEF IndInv, DraftFits, Spent
  <2>6. Minted'
    BY <1>3, <1>8, <2>1 DEF IndInv, Minted
  <2>7. CipherSound'
    BY <1>6, <2>1 DEF IndInv, CipherSound, Lost
  <2>8. TombstoneUnused'
    BY <1>8, <2>1 DEF IndInv, TombstoneUnused, Tombstone
  <2>9. ErasePending'
    BY <1>6, <2>1 DEF IndInv, ErasePending, Tombstone, View
  <2>10. NoOrphanCiphertext'
    BY <1>7, <1>10, <2>1 DEF IndInv, NoOrphanCiphertext, CipherSound, Lost
  <2>11. ReceiptIffDestroyed'
    BY <1>1, <1>3, <1>10, <2>1 DEF IndInv, ReceiptIffDestroyed, ErasePending, Tombstone, View
  <2>12. WorkingKeyKept'
    BY <2>1 DEF IndInv, WorkingKeyKept
  <2> QED
    BY <2>2, <2>3, <2>5, <2>6, <2>7, <2>8, <2>9, <2>10, <2>11, <2>12 DEF IndInv
<1>11. CASE lock = s
  <2>1. /\ key' = draft /\ draft' = None /\ lock' = None
        /\ gone' = IF key # None /\ key.dek # 0
                     THEN gone \cup {[dek |-> key.dek, kek |-> key.kek,
                                      by |-> kek[s], why |-> job[s]]}
                     ELSE gone
    BY <1>11 DEF Commit
  <2>2. /\ draft # None /\ draft \in Rows
        /\ job[s] \in Writers => key = None /\ ~draft.destroyed
        /\ job[s] = "erase" => draft.destroyed /\ draft.dek = 0
        /\ job[s] = "rekey" => /\ key # None /\ draft.destroyed = key.destroyed
                              /\ draft.dek \notin Used /\ Spent(s, key)
    BY <1>1, <1>11 DEF IndInv, DraftFits, TypeOK
  <2>3. job[s] \in Writers \/ job[s] = "erase" \/ job[s] = "rekey"
    BY <1>1 DEF Jobs, Writers
  <2>4. key # None => key \in Rows /\ job[s] \in {"erase", "rekey"}
    BY <2>2, <2>3 DEF IndInv, TypeOK
  <2>5. TypeOK'
    <3>1. gone' \in SUBSET [dek : Deks, kek : Keks, by : Keks, why : {"erase", "rekey"}]
      <4>1. CASE key # None /\ key.dek # 0
        <5>1. key.dek \in Deks /\ key.kek \in Keks
          BY <2>4, <4>1 DEF Rows
        <5>2. [dek |-> key.dek, kek |-> key.kek, by |-> kek[s], why |-> job[s]]
                \in [dek : Deks, kek : Keks, by : Keks, why : {"erase", "rekey"}]
          BY <1>1, <2>4, <4>1, <5>1
        <5> QED
          BY <2>1, <4>1, <5>2 DEF IndInv, TypeOK
      <4>2. CASE ~(key # None /\ key.dek # 0)
        BY <2>1, <4>2 DEF IndInv, TypeOK
      <4> QED
        BY <4>1, <4>2
    <3> QED
      BY <1>2, <1>3, <1>4, <1>5, <2>1, <2>2, <3>1, OverType DEF IndInv, TypeOK
  <2>6. /\ Lost \subseteq Lost'
        /\ key # None /\ key.dek # 0 => key.dek \in Lost'
    <3>1. gone \subseteq gone'
      BY <2>1
    <3>2. ASSUME key # None, key.dek # 0 PROVE key.dek \in Lost'
      <4> DEFINE g == [dek |-> key.dek, kek |-> key.kek, by |-> kek[s], why |-> job[s]]
      <4>1. g \in gone' /\ g.dek = key.dek
        BY <2>1, <3>2
      <4> QED
        BY <4>1 DEF Lost
    <3> QED
      BY <3>1, <3>2 DEF Lost
  <2>7. \A t \in Sessions : Fits(t)'
    <3>1. Fits(s)'
      BY <1>1, <1>2, <1>6, <2>1, IdleFits
    <3>2. ASSUME NEW t \in Sessions \ {s} PROVE Fits(t)'
      <4>1. Fits(t) /\ lock # t /\ t # None
        BY <1>11, ShapeOf, NoneAssumption
      <4>2. pc[t] = "replace" => Spent(t, key)'
        <5> SUFFICES ASSUME pc[t] = "replace" PROVE Spent(t, key)'
          OBVIOUS
        <5>1. key # None /\ t \in Operators
          BY <4>1 DEF Fits
        <5>2. job[s] = "erase"
          BY <1>1, <2>4, <3>2, <5>1, OneOperator DEF Fits
        <5> QED
          BY <2>1, <2>2, <5>2 DEF Spent
      <4> QED
        BY <1>2, <1>6, <2>1, <2>2, <4>1, <4>2 DEF Fits, View
    <3> QED
      BY <3>1, <3>2
  <2>8. DraftFits'
    BY <2>1 DEF DraftFits
  <2>9. Minted'
    BY <1>3, <1>8, <2>1, <2>2 DEF IndInv, Minted
  <2>10. \A t \in Sessions \ {s} : cipher[t] # 0 => cipher[t] \in Lost'
    BY <1>11, <2>6 DEF IndInv, CipherSound
  <2>11. CipherSound'
    BY <1>6, <2>1, <2>2, <2>10 DEF CipherSound
  <2>12. TombstoneUnused'
    BY <1>8, <2>1, <2>2, <2>3 DEF TombstoneUnused, Tombstone, Used
  <2>13. ErasePending'
    <3>1. ASSUME NEW t \in Sessions \ {s}, job[t] = "erase", pc[t] = "write"
          PROVE  draft.destroyed
      <4>1. Tombstone(key)
        BY <1>11, <3>1 DEF IndInv, ErasePending, View
      <4> QED
        BY <2>2, <2>4, <4>1 DEF Tombstone
    <3> QED
      BY <1>6, <1>1, <2>1, <2>2, <3>1, NoneAssumption DEF ErasePending, View, Tombstone
  <2>14. NoOrphanCiphertext'
    <3>1. \A c \in Ciphertexts \ {0} : c \in Lost'
      BY <2>6 DEF IndInv, NoOrphanCiphertext
    <3>2. cipher[s] # 0 => draft.dek = cipher[s]
      BY <1>9, <1>11, <2>2 DEF IndInv, CipherSound, Writers
    <3> QED
      BY <1>7, <2>1, <2>2, <3>1, <3>2 DEF NoOrphanCiphertext
  <2>15. ReceiptIffDestroyed'
    BY <1>3, <2>1, <2>2, <2>3 DEF IndInv, ReceiptIffDestroyed, Tombstone, Writers
  <2>16. WorkingKeyKept'
    BY <2>1, <2>2 DEF IndInv, WorkingKeyKept, Spent
  <2> QED
    BY <2>5, <2>7, <2>8, <2>9, <2>11, <2>12, <2>13, <2>14, <2>15, <2>16 DEF IndInv
<1> QED
  BY <1>10, <1>11

-----------------------------------------------------------------------------
(* The transactions of S are undone; their entries go to nobody, or to a session
   that was waiting for one. *)
LEMMA UndoInd ==
  ASSUME IndInv, NEW S \in SUBSET Sessions, Undo(S),
         running' \in SUBSET Keks, faults' \in 0..MaxFaults,
         vlock' \in [Entities -> Sessions \cup {None}],
         \A e \in Entities : vlock'[e] # None => vlock'[e] \notin S /\ cipher[vlock'[e]] # 0
  PROVE  IndInv'
<1>1. /\ Over(S) /\ key' = key /\ vault' = vault /\ log' = log /\ receipt' = receipt
      /\ minted' = minted /\ gone' = gone
  BY DEF Undo
<1>2. /\ \A t \in S : job'[t] = "idle" /\ pc'[t] = "start" /\ cipher'[t] = 0 /\ at'[t] = None
      /\ \A t \in Sessions \ S :
           /\ job'[t] = job[t] /\ pc'[t] = pc[t] /\ kek'[t] = kek[t]
           /\ cipher'[t] = cipher[t] /\ at'[t] = at[t]
  BY <1>1, OverType DEF IndInv
<1>3. \/ lock \in S /\ lock' = None /\ draft' = None
      \/ lock \notin S /\ lock' = lock /\ draft' = draft
  BY DEF Undo
<1>4. TypeOK'
  BY <1>1, <1>3, OverType DEF IndInv, TypeOK
<1>5. Ciphertexts' = Ciphertexts /\ Lost' = Lost /\ Used' \subseteq Used
  BY <1>1, <1>2 DEF Ciphertexts, Lost, Used
<1>6. \A t \in Sessions : t # None
  BY NoneAssumption
<1>7. \A t \in Sessions : Fits(t)'
  <2>1. ASSUME NEW t \in S PROVE Fits(t)'
    BY <1>2, <1>3, <1>6, <2>1, IdleFits
  <2>2. ASSUME NEW t \in Sessions \ S PROVE Fits(t)'
    <3>1. View(t)' = View(t) /\ (lock' = t => lock = t)
      BY <1>1, <1>3, <1>6, <2>2 DEF View
    <3>2. \A e \in Entities : vlock'[e] = t => cipher[t] # 0
      BY <1>6
    <3> QED
      BY <1>1, <1>2, <2>2, <3>1, <3>2, ShapeOf DEF Fits, Spent
  <2> QED
    BY <2>1, <2>2
<1>8. lock' # None => lock' \in Sessions \ S /\ lock' = lock /\ draft' = draft
  BY <1>3 DEF IndInv, TypeOK
<1>9. DraftFits'
  BY <1>1, <1>2, <1>3, <1>5, <1>8 DEF IndInv, DraftFits, Spent
<1>10. Minted'
  BY <1>1, <1>3, <1>5 DEF IndInv, Minted
<1>11. CipherSound'
  BY <1>1, <1>2, <1>3, <1>5 DEF IndInv, CipherSound
<1>12. TombstoneUnused' /\ NoOrphanCiphertext' /\ ReceiptIffDestroyed' /\ WorkingKeyKept'
  BY <1>1, <1>5 DEF IndInv, TombstoneUnused, NoOrphanCiphertext, ReceiptIffDestroyed,
                    WorkingKeyKept, Tombstone
<1>13. ErasePending'
  BY <1>1, <1>2, <1>3, <1>6 DEF IndInv, ErasePending, Tombstone, View
<1> QED
  BY <1>4, <1>7, <1>9, <1>10, <1>11, <1>12, <1>13 DEF IndInv

LEMMA RollBackInd ==
  ASSUME IndInv, NEW S \in SUBSET Sessions, RollBack(S),
         running' \in SUBSET Keks, faults' \in 0..MaxFaults
  PROVE  IndInv'
<1>1. /\ vlock' \in [Entities -> Sessions \cup {None}]
      /\ \A e \in Entities : vlock'[e] = IF vlock[e] \in S THEN None ELSE vlock[e]
  BY DEF RollBack, IndInv, TypeOK
<1>2. \A e \in Entities : vlock'[e] # None => vlock'[e] \notin S /\ cipher[vlock'[e]] # 0
  BY <1>1, ShapeOf DEF IndInv, TypeOK, Fits
<1> QED
  BY <1>1, <1>2, UndoInd DEF RollBack

LEMMA VictimInd ==
  ASSUME IndInv, NEW s \in Sessions, Victim(s)
  PROVE  IndInv'
<1>1. PICK t \in Sessions : /\ Waits(s, t) /\ Waits(t, s)
                            /\ vlock' = [Unlock(s) EXCEPT ![at[t]] = t]
  BY DEF Victim
<1>2. t # s /\ at[t] \in Entities /\ cipher[t] # 0
  BY <1>1, ShapeOf DEF Waits, Fits, IndInv, TypeOK
<1>3. /\ vlock' \in [Entities -> Sessions \cup {None}]
      /\ \A e \in Entities :
           vlock'[e] = IF e = at[t] THEN t ELSE IF vlock[e] = s THEN None ELSE vlock[e]
  BY <1>1, <1>2 DEF Unlock, IndInv, TypeOK
<1>4. \A e \in Entities : vlock'[e] # None => vlock'[e] \notin {s} /\ cipher[vlock'[e]] # 0
  BY <1>2, <1>3, ShapeOf DEF IndInv, TypeOK, Fits
<1>5. running' \in SUBSET Keks /\ faults' \in 0..MaxFaults
  BY DEF Victim, env, IndInv, TypeOK
<1> QED
  BY <1>3, <1>4, <1>5, UndoInd DEF Victim

LEMMA Stutter == IndInv /\ UNCHANGED vars => IndInv'
<1> SUFFICES ASSUME IndInv, UNCHANGED vars PROVE IndInv'
  OBVIOUS
<1> USE DEF vars
<1>1. TypeOK' /\ \A s \in Sessions : Fits(s)'
  BY DEF IndInv, TypeOK, Fits, View, Spent
<1>2. Ciphertexts' = Ciphertexts /\ Used' = Used /\ Lost' = Lost
  BY DEF Ciphertexts, Used, Lost
<1>3. DraftFits' /\ Minted' /\ CipherSound' /\ TombstoneUnused' /\ ErasePending'
  BY <1>2 DEF IndInv, DraftFits, Minted, CipherSound, TombstoneUnused, ErasePending,
              Tombstone, View, Spent
<1>4. NoOrphanCiphertext' /\ ReceiptIffDestroyed' /\ WorkingKeyKept'
  BY <1>2 DEF IndInv, NoOrphanCiphertext, ReceiptIffDestroyed, WorkingKeyKept, Tombstone
<1> QED
  BY <1>1, <1>3, <1>4 DEF IndInv

LEMMA DeployInd ==
  ASSUME IndInv, NEW k \in Keks, Deploy(k)
  PROVE  IndInv'
<1>1. TypeOK'
  BY KeysAssumption DEF Deploy, IndInv, TypeOK, row, store, local
<1>2. \A s \in Sessions : Fits(s)'
  BY ShapeOf DEF Deploy, Fits, View, Spent, row, store, local
<1>3. Ciphertexts' = Ciphertexts /\ Used' = Used /\ Lost' = Lost
  BY DEF Deploy, Ciphertexts, Used, Lost, store, local
<1>4. DraftFits' /\ Minted' /\ CipherSound' /\ TombstoneUnused' /\ ErasePending'
  BY <1>3 DEF Deploy, IndInv, DraftFits, Minted, CipherSound, TombstoneUnused, ErasePending,
              Tombstone, View, Spent, row, local
<1>5. NoOrphanCiphertext' /\ ReceiptIffDestroyed' /\ WorkingKeyKept'
  BY <1>3 DEF Deploy, IndInv, NoOrphanCiphertext, ReceiptIffDestroyed, WorkingKeyKept,
              Tombstone, row, store
<1> QED
  BY <1>1, <1>2, <1>4, <1>5 DEF IndInv

-----------------------------------------------------------------------------
LEMMA NextInd == IndInv /\ [Next]_vars => IndInv'
<1> SUFFICES ASSUME IndInv, [Next]_vars PROVE IndInv'
  OBVIOUS
<1>1. ASSUME NEW s \in Sessions, SessionStep(s) PROVE IndInv'
  BY <1>1, MissInd, InsertInd, LoseInsertInd, OpenInd, PutInd, AskInd, AimInd, DestroyInd,
     InspectInd, ReplaceInd, CommitInd, VictimInd DEF SessionStep
<1>2. ASSUME NEW s \in Sessions, Abort(s) PROVE IndInv'
  <2>1. running' \in SUBSET Keks /\ faults' \in 0..MaxFaults /\ RollBack({s})
    BY <1>2, KeysAssumption DEF Abort, IndInv, TypeOK
  <2> QED
    BY <2>1, RollBackInd
<1>3. ASSUME NEW s \in Sessions, NEW j \in Jobs, NEW k \in Keks, Begin(s, j, k) PROVE IndInv'
  BY <1>3, BeginInd
<1>4. ASSUME NEW k \in Keks, Deploy(k) PROVE IndInv'
  BY <1>4, DeployInd
<1>5. ASSUME NEW k \in Keks, Retire(k) PROVE IndInv'
  <2>1. /\ running' \in SUBSET Keks /\ faults' \in 0..MaxFaults
        /\ RollBack({s \in Sessions : kek[s] = k})
    BY <1>5 DEF Retire, IndInv, TypeOK
  <2> QED
    BY <2>1, RollBackInd
<1> QED
  BY <1>1, <1>2, <1>3, <1>4, <1>5, Stutter DEF Next

LEMMA Inductive == Spec => []IndInv
  BY InitInd, NextInd, PTL DEF Spec

(* Every variable keeps its type. *)
THEOREM TypeCorrect == Spec => []TypeOK
<1>1. IndInv => TypeOK
  BY DEF IndInv
<1> QED
  BY <1>1, Inductive, PTL

(* However the first writers meet on the absent row, and whoever rotates,
   recovers or erases meanwhile, no ciphertext is ever under a key that the row
   never held: ensure_key's savepoint hands every loser the winner's key. *)
THEOREM NoOrphans == Spec => []NoOrphanCiphertext
<1>1. IndInv => NoOrphanCiphertext
  BY DEF IndInv
<1> QED
  BY <1>1, Inductive, PTL

(* After an erasure nothing on file can be read again, not even with what a
   recovery racing the erasure writes into the blanked row. *)
THEOREM ErasureHolds == Spec => []ErasedStaysUnreadable
<1>1. IndInv => ErasedStaysUnreadable
  <2> SUFFICES ASSUME IndInv, Tombstone(key)
               PROVE  /\ \A k \in Keks : Unwrapped(key, k) = 0
                      /\ key.dek \notin Ciphertexts \ {0}
    BY DEF ErasedStaysUnreadable
  <2> QED
    BY DEF IndInv, TombstoneUnused, Tombstone, Unwrapped, Inert, Used
<1> QED
  BY <1>1, Inductive, PTL

(* A receipt and a destroyed key are never without each other. *)
THEOREM ReceiptsTrue == Spec => []ReceiptIffDestroyed
<1>1. IndInv => ReceiptIffDestroyed
  BY DEF IndInv
<1> QED
  BY <1>1, Inductive, PTL

(* One operator at a time never replaces a key that works. *)
THEOREM RecoverySafe == Spec => []WorkingKeyKept
<1>1. IndInv => WorkingKeyKept
  BY DEF IndInv
<1> QED
  BY <1>1, Inductive, PTL

(* No batch that opens its key after the erasure has committed gets one. *)
THEOREM EraseHonoured == Spec => DestroyHonoured
<1>1. ASSUME IndInv, [Next]_vars, NEW s \in Sessions, cipher[s] = 0, cipher'[s] # 0
      PROVE  ~Tombstone(key)
  <2> DEFINE d == Unwrapped(View(s), kek[s])
  <2>1. ASSUME NEW t \in Sessions, Open(t) PROVE ~Tombstone(key)
    <3>1. lock # t
      BY <1>1, <2>1, ShapeOf DEF Open, Fits
    <3>2. View(t) = key
      BY <3>1 DEF View
    <3>3. Unwrapped(View(t), kek[t]) \in Deks \cup {0}
      BY <1>1, <2>1, <3>2 DEF Open, Unwrapped, IndInv, TypeOK, Rows
    <3>4. CASE Over({t})
      BY <1>1, <3>4, OverType DEF IndInv
    <3>5. CASE GoOn(t, Unwrapped(View(t), kek[t]))
      <4>1. t = s /\ Unwrapped(key, kek[t]) # 0
        BY <1>1, <3>2, <3>3, <3>5, GoOnType DEF IndInv
      <4> QED
        BY <4>1 DEF Unwrapped, Inert, Tombstone
    <3> QED
      BY <2>1, <3>4, <3>5 DEF Open
  <2>2. ASSUME NEW t \in Sessions, Insert(t) PROVE ~Tombstone(key)
    BY <2>2 DEF Insert, Tombstone
  <2>3. ASSUME NEW S \in SUBSET Sessions, Over(S) PROVE FALSE
    BY <1>1, <2>3, OverType DEF IndInv
  <2>4. cipher' # cipher
    BY <1>1
  <2>5. ASSUME NEW t \in Sessions, SessionStep(t) \/ Abort(t) PROVE ~Tombstone(key)
    BY <2>1, <2>2, <2>3, <2>4, <2>5 DEF SessionStep, Abort, Miss, LoseInsert, Put, Ask, Aim,
       Destroy, Inspect, Replace, Commit, Victim, RollBack, Undo
  <2>6. ASSUME NEW k \in Keks, Retire(k) PROVE FALSE
    BY <2>3, <2>6 DEF Retire, RollBack, Undo
  <2> QED
    BY <1>1, <2>4, <2>5, <2>6 DEF Next, Begin, Deploy, local, vars
<1>2. IndInv /\ [Next]_vars =>
        [\A s \in Sessions : cipher[s] = 0 /\ cipher'[s] # 0 => ~Tombstone(key)]_vars
  BY <1>1
<1> QED
  BY <1>2, Inductive, PTL DEF Spec, DestroyHonoured
=============================================================================
