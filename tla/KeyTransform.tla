------------------------------- MODULE KeyTransform -------------------------------
(***************************************************************************)
(* PwDatabase::transformKey() (db/PwDatabase.cpp): the composite key is cut*)
(* into two halves, each of which is encrypted with the transform seed, a  *)
(* great number of times.  A thread of the pool works on the first half,   *)
(* through a pointer to a buffer in the caller's frame, while the caller   *)
(* works on the second one.  Both work on copies of their own and put the  *)
(* result back when they are through; then the caller hashes the two.      *)
(*                                                                         *)
(* Ciphers and hashes are symbolic: a result is the record of all that has *)
(* gone into it.  Rijndael::init() cannot fail with the arguments it gets  *)
(* here, nor the hashes, so the error codes are left out.                  *)
(***************************************************************************)
EXTENDS Naturals

VARIABLES
    callerPc,    \* where the caller is in transformKey(): "idle" before and after
    workerPc,    \* where the other thread is in performKeyTransformRounds()
    call,        \* the arguments of transformKey()
    subKey1,     \* the two buffers in the caller's frame
    subKey2,
    workerKey,   \* transKey of the two threads
    callerKey,
    aesKey       \* the result

frame         == <<subKey1, subKey2>>
threadVars    == <<callerPc, workerPc, call, frame, workerKey, callerKey>>
transformVars == <<threadVars, aesKey>>

(* What a variable is when the frame it was in is gone: no half of a key.         *)
Gone == [half |-> 0]

(* One half of the key, after a number of rounds with a seed.                     *)
SubKey(half, key, seed, n) == [half |-> half, key |-> key, seed |-> seed, rounds |-> n]

(* Both halves, and the hash of the master seed and the hash of the halves.       *)
TransformedKey(masterSeed, sub1, sub2) ==
    [masterSeed |-> masterSeed, sub1 |-> sub1, sub2 |-> sub2]

(* What transformKey() is to compute.                                             *)
KeyOf(c) == TransformedKey(c.masterSeed,
                           SubKey(1, c.key, c.transformSeed, c.rounds),
                           SubKey(2, c.key, c.transformSeed, c.rounds))

TransformInit ==
    /\ callerPc = "idle"
    /\ workerPc = "idle"
    /\ call = Gone
    /\ subKey1 = Gone
    /\ subKey2 = Gone
    /\ workerKey = Gone
    /\ callerKey = Gone
    /\ aesKey = Gone

(* Up to the first round of the caller's half; the other half is in the queue.    *)
TransformBegin(masterSeed, transformSeed, rounds, key) ==
    /\ callerPc = "idle"
    /\ call' = [masterSeed |-> masterSeed, transformSeed |-> transformSeed,
                rounds |-> rounds, key |-> key]
    /\ subKey1' = SubKey(1, key, transformSeed, 0)
    /\ subKey2' = SubKey(2, key, transformSeed, 0)
    /\ callerKey' = subKey2'
    /\ callerPc' = "rounds"
    /\ workerPc' = "queued"
    /\ UNCHANGED <<workerKey, aesKey>>

(* A thread of the pool takes up the call and copies the half key.                *)
WorkerStart ==
    /\ workerPc = "queued"
    /\ workerKey' = subKey1
    /\ workerPc' = "rounds"
    /\ UNCHANGED <<callerPc, call, frame, callerKey, aesKey>>

(* Mutant: one round too many.                                                    *)
WorkerRoundToo ==
    /\ workerPc = "rounds"
    /\ workerKey.rounds <= call.rounds
    /\ workerKey' = [workerKey EXCEPT !.rounds = @ + 1]
    /\ UNCHANGED <<callerPc, workerPc, call, frame, callerKey, aesKey>>

WorkerRound ==
    /\ workerPc = "rounds"
    /\ workerKey.rounds < call.rounds
    /\ workerKey' = [workerKey EXCEPT !.rounds = @ + 1]
    /\ UNCHANGED <<callerPc, workerPc, call, frame, callerKey, aesKey>>

(* Mutant: the thread takes up the call again instead of ending it.                *)
WorkerAgain ==
    /\ workerPc = "rounds"
    /\ workerKey.rounds >= call.rounds
    /\ subKey1' = workerKey
    /\ workerPc' = "queued"
    /\ UNCHANGED <<callerPc, call, subKey2, workerKey, callerKey, aesKey>>

WorkerStore ==
    /\ workerPc = "rounds"
    /\ workerKey.rounds >= call.rounds
    /\ subKey1' = workerKey
    /\ workerPc' = "done"
    /\ UNCHANGED <<callerPc, call, subKey2, workerKey, callerKey, aesKey>>

CallerRound ==
    /\ callerPc = "rounds"
    /\ callerKey.rounds < call.rounds
    /\ callerKey' = [callerKey EXCEPT !.rounds = @ + 1]
    /\ UNCHANGED <<callerPc, workerPc, call, frame, workerKey, aesKey>>

CallerStore ==
    /\ callerPc = "rounds"
    /\ callerKey.rounds >= call.rounds
    /\ subKey2' = callerKey
    /\ callerPc' = "wait"
    /\ UNCHANGED <<workerPc, call, subKey1, workerKey, callerKey, aesKey>>

(* Mutant: the result of the other thread is not waited for.                      *)
CallerGoesOn ==
    /\ callerPc = "wait"
    /\ aesKey' = TransformedKey(call.masterSeed, subKey1, subKey2)
    /\ subKey1' = Gone
    /\ subKey2' = Gone
    /\ callerPc' = "done"
    /\ UNCHANGED <<workerPc, call, workerKey, callerKey>>

(* anotherTask.result() returns when the other thread has finished; the two halves*)
(* are hashed, and the frame goes with the return.                                *)
CallerJoin ==
    /\ callerPc = "wait"
    /\ workerPc = "done"
    /\ aesKey' = TransformedKey(call.masterSeed, subKey1, subKey2)
    /\ subKey1' = Gone
    /\ subKey2' = Gone
    /\ callerPc' = "done"
    /\ UNCHANGED <<workerPc, call, workerKey, callerKey>>

(* The caller of transformKey() goes on, and says what becomes of the key.        *)
TransformReturn ==
    /\ callerPc = "done"
    /\ callerPc' = "idle"
    /\ workerPc' = "idle"
    /\ call' = Gone
    /\ workerKey' = Gone
    /\ callerKey' = Gone
    /\ UNCHANGED frame

Worker    == WorkerStart \/ WorkerRound \/ WorkerStore
Caller    == CallerRound \/ CallerStore \/ CallerJoin
Transform == Worker \/ Caller

----------------------------------------------------------------------------------
(* Properties                                                                     *)

(* The other thread reads and writes the buffer of the first half only while the  *)
(* frame that holds it is there (PwDatabase.cpp:141).                             *)
FrameOutlivesWorker == workerPc \in {"queued", "rounds"} => subKey1 # Gone

(* When transformKey() returns, the key has all rounds of both halves in it,      *)
(* however the two threads have been scheduled (PwDatabase.cpp:144).              *)
KeyIsComplete == callerPc = "done" => aesKey = KeyOf(call)
====================================================================================
