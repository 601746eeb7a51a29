------------------------------- MODULE FileV4Proofs -------------------------------
(***************************************************************************)
(* Proofs about FileV4: the two threads of transformKey() always give the  *)
(* complete key, and a file opens with its own key only, as it was saved.  *)
(* The inductive invariant says how far each thread is with its half, and  *)
(* what the file has been made of, under any number of damages.            *)
(***************************************************************************)
EXTENDS FileV4, SequenceTheorems, TLAPS

(* A half of the key of the call, after n rounds.                                 *)
HalfKey(half, n) == SubKey(half, call.key, call.transformSeed, n)

(* The call of transformKey() for a header.                                       *)
CallFor(hdr, key) == [masterSeed |-> hdr.masterSeed, transformSeed |-> hdr.transformSeed,
                      rounds |-> hdr.rounds, key |-> key]

ThreadsInv ==
    /\ callerPc = "idle" <=> workerPc = "idle"
    /\ callerPc # "idle" => call = CallFor(header, combinedKey)
    /\ workerPc \in {"queued", "rounds"} => subKey1 = HalfKey(1, 0)
    /\ workerPc = "rounds" => \E n \in 0..call.rounds : workerKey = HalfKey(1, n)
    /\ workerPc = "done" /\ callerPc # "done" => subKey1 = HalfKey(1, call.rounds)
    /\ callerPc = "rounds" => \E n \in 0..call.rounds : callerKey = HalfKey(2, n)
    /\ callerPc = "wait" => subKey2 = HalfKey(2, call.rounds)
    /\ callerPc = "done" => workerPc = "done" /\ aesKey = KeyOf(call)

(* What the bytes of a file that holds a document may be.                         *)
Data(xml) == {Garbled, End} \cup {Piece(xml, i) : i \in 1..Pieces}

Blocks(xml) == Seq([id : Int, hash : Data(xml), data : Data(xml)])

Bodies(hdr, hash, vals, key) ==
    [key   : {KeyOf(CallFor(hdr, key))},
     iv    : {hdr.iv},
     plain : [start : Int, padded : BOOLEAN, blocks : Blocks(Xml(hash, vals, SalsaOf(hdr)))]]

StoredValues == Seq(Values \cup {Garbage})

(* The file was made with this header, and hash of a header in the document.      *)
MadeWith(hdr, hash) ==
    /\ hash \in {None, hdr}
    /\ file.body \in Bodies(hdr, hash, written.values, written.key)
    /\ written.damages = 0 =>
          /\ file.header = hdr
          /\ file.body.plain =
                Plain(hdr.startBytes, SplitToBlocks(Xml(hash, written.values, SalsaOf(hdr))))

FileInv ==
    /\ file = [header |-> file.header, body |-> file.body]
    /\ stage = "loading" => header = file.header
    /\ written \in [values : StoredValues, key : Keys, damages : Nat]
    /\ \E hdr \in HeaderStates, hash \in {None} \cup HeaderStates : MadeWith(hdr, hash)

IInv == FileTypeOK /\ ThreadsInv /\ FileInv

----------------------------------------------------------------------------------
(* The threads                                                                    *)

(* The start of transformKey() sets the two threads up.                           *)
LEMMA BeginThreads ==
    ASSUME ThreadsInv,
           NEW key, NEW hdr, hdr.rounds \in Nat,
           TransformBegin(hdr.masterSeed, hdr.transformSeed, hdr.rounds, key),
           header' = hdr, combinedKey' = key
    PROVE  ThreadsInv'
BY DEF ThreadsInv, TransformBegin, CallFor, HalfKey, SubKey

(* Each step of the threads leaves them where the invariant says.                 *)
LEMMA StepThreads ==
    ASSUME FileTypeOK, ThreadsInv, Transform, UNCHANGED fileVars
    PROVE  ThreadsInv'
<1>1. call.rounds \in Nat
  BY RoundsAssumption DEF FileTypeOK, ThreadsInv, Transform, Worker, Caller, WorkerStart,
     WorkerRound, WorkerStore, CallerRound, CallerStore, CallerJoin, CallFor, HeaderStates
<1>2. CASE WorkerStart
  BY <1>1, <1>2 DEF WorkerStart, ThreadsInv, HalfKey, CallFor, frame, fileVars
<1>3. CASE WorkerRound
  <2>1. PICK n \in 0..call.rounds : workerKey = HalfKey(1, n)
    BY <1>3 DEF WorkerRound, ThreadsInv
  <2>2. workerKey' = HalfKey(1, n + 1) /\ n + 1 \in 0..call.rounds
    BY <1>1, <1>3, <2>1 DEF WorkerRound, HalfKey, SubKey
  <2>. QED
    BY <1>3, <2>2 DEF WorkerRound, ThreadsInv, HalfKey, CallFor, frame, fileVars
<1>4. CASE WorkerStore
  <2>1. PICK n \in 0..call.rounds : workerKey = HalfKey(1, n)
    BY <1>4 DEF WorkerStore, ThreadsInv
  <2>2. n = call.rounds
    BY <1>1, <1>4, <2>1 DEF WorkerStore, HalfKey, SubKey
  <2>. QED
    BY <1>4, <2>1, <2>2 DEF WorkerStore, ThreadsInv, HalfKey, CallFor, fileVars
<1>5. CASE CallerRound
  <2>1. PICK n \in 0..call.rounds : callerKey = HalfKey(2, n)
    BY <1>5 DEF CallerRound, ThreadsInv
  <2>2. callerKey' = HalfKey(2, n + 1) /\ n + 1 \in 0..call.rounds
    BY <1>1, <1>5, <2>1 DEF CallerRound, HalfKey, SubKey
  <2>. QED
    BY <1>5, <2>2 DEF CallerRound, ThreadsInv, HalfKey, CallFor, frame, fileVars
<1>6. CASE CallerStore
  <2>1. PICK n \in 0..call.rounds : callerKey = HalfKey(2, n)
    BY <1>6 DEF CallerStore, ThreadsInv
  <2>2. n = call.rounds
    BY <1>1, <1>6, <2>1 DEF CallerStore, HalfKey, SubKey
  <2>. QED
    BY <1>6, <2>1, <2>2 DEF CallerStore, ThreadsInv, HalfKey, CallFor, fileVars
<1>7. CASE CallerJoin
  BY <1>7 DEF CallerJoin, ThreadsInv, HalfKey, CallFor, KeyOf, fileVars
<1>. QED
  BY <1>2, <1>3, <1>4, <1>5, <1>6, <1>7 DEF Transform, Worker, Caller

(* The return from transformKey() ends both threads.                              *)
LEMMA ReturnThreads == ASSUME ThreadsInv, TransformReturn PROVE ThreadsInv'
BY DEF ThreadsInv, TransformReturn

(* What leaves the threads alone while they rest keeps the invariant.             *)
LEMMA RestingThreads ==
    ASSUME ThreadsInv, callerPc = "idle", UNCHANGED threadVars
    PROVE  ThreadsInv'
BY DEF ThreadsInv, threadVars

----------------------------------------------------------------------------------
(* The file                                                                       *)

(* A drawn header is a header.                                                    *)
LEMMA HeaderIsState ==
    ASSUME NEW seed \in Nat, NEW n \in Rounds
    PROVE  Header(seed, n) \in HeaderStates
BY DEF Header, HeaderStates

(* Damage leaves a header one, though perhaps not well formed.                    *)
LEMMA DamagedIsState ==
    ASSUME NEW hdr \in HeaderStates, NEW h \in DamagedHeaders(hdr)
    PROVE  h \in HeaderStates
<1>1. 0 \in Nat /\ FALSE \in BOOLEAN
  OBVIOUS
<1>2. /\ [hdr EXCEPT !.wellFormed = FALSE] \in HeaderStates
      /\ [hdr EXCEPT !.masterSeed = 0] \in HeaderStates
      /\ [hdr EXCEPT !.transformSeed = 0] \in HeaderStates
      /\ [hdr EXCEPT !.iv = 0] \in HeaderStates
      /\ [hdr EXCEPT !.streamKey = 0] \in HeaderStates
      /\ [hdr EXCEPT !.startBytes = 0] \in HeaderStates
      /\ \A n \in Rounds : [hdr EXCEPT !.rounds = n] \in HeaderStates
  BY <1>1 DEF HeaderStates
<1>. QED
  BY <1>2 DEF DamagedHeaders

(* The blocks of a document are blocks of its data.                               *)
LEMMA SplitIsBlocks ==
    ASSUME NEW xml
    PROVE  SplitToBlocks(xml) \in Blocks(xml)
<1>. DEFINE S == [id : Int, hash : Data(xml), data : Data(xml)]
            n == Pieces + 1
<1>1. n \in Nat
  BY PiecesAssumption
<1>2. \A i \in 1..n : IF i <= Pieces THEN Block(i - 1, Piece(xml, i), Piece(xml, i)) \in S
                                     ELSE Block(i - 1, End, End) \in S
  BY PiecesAssumption DEF Block, Data
<1>3. SplitToBlocks(xml) \in [1..n -> S]
  BY <1>2 DEF SplitToBlocks
<1>. QED
  BY <1>1, <1>3, SeqDef DEF Blocks

(* What damage makes of a plain text still holds nothing but the data of its      *)
(* document.                                                                      *)
LEMMA DamagedIsPlain ==
    ASSUME NEW xml,
           NEW plain \in [start : Int, padded : BOOLEAN, blocks : Blocks(xml)],
           NEW p \in DamagedPlain(plain)
    PROVE  p \in [start : Int, padded : BOOLEAN, blocks : Blocks(xml)]
<1>. DEFINE S == [id : Int, hash : Data(xml), data : Data(xml)]
            blocks == plain.blocks
<1>1. blocks \in Seq(S) /\ -1 \in Int /\ Garbled \in Data(xml)
  BY DEF Blocks, Data
<1>2. \A i \in DOMAIN blocks, b \in S : [blocks EXCEPT ![i] = b] \in Seq(S)
  BY <1>1, ExceptSeq, LenProperties
<1>3. \A i \in DOMAIN blocks : blocks[i] \in S
  <2>. HIDE DEF S
  <2>. QED
    BY <1>1, ElementOfSeq, LenProperties
<1>4. \A i \in DOMAIN blocks : /\ [blocks[i] EXCEPT !.id = -1] \in S
                               /\ [blocks[i] EXCEPT !.hash = Garbled] \in S
                               /\ [blocks[i] EXCEPT !.data = Garbled] \in S
  BY <1>1, <1>3
<1>5. \A b \in DamagedBlocks(blocks) : b \in Seq(S)
  <2>. SUFFICES ASSUME NEW b \in DamagedBlocks(blocks)
                PROVE  b \in Seq(S)
    OBVIOUS
  <2>1. PICK i \in DOMAIN blocks :
           b \in {[blocks EXCEPT ![i].id = -1], [blocks EXCEPT ![i].hash = Garbled],
                 [blocks EXCEPT ![i].data = Garbled]}
    BY Zenon DEF DamagedBlocks
  <2>2. /\ [blocks EXCEPT ![i].id = -1] = [blocks EXCEPT ![i] = [blocks[i] EXCEPT !.id = -1]]
        /\ [blocks EXCEPT ![i].hash = Garbled] = [blocks EXCEPT ![i] = [blocks[i] EXCEPT !.hash = Garbled]]
        /\ [blocks EXCEPT ![i].data = Garbled] = [blocks EXCEPT ![i] = [blocks[i] EXCEPT !.data = Garbled]]
    OBVIOUS
  <2>. HIDE DEF S
  <2>3. /\ [blocks EXCEPT ![i] = [blocks[i] EXCEPT !.id = -1]] \in Seq(S)
        /\ [blocks EXCEPT ![i] = [blocks[i] EXCEPT !.hash = Garbled]] \in Seq(S)
        /\ [blocks EXCEPT ![i] = [blocks[i] EXCEPT !.data = Garbled]] \in Seq(S)
    BY <1>2, <1>4
  <2>. QED
    BY <2>1, <2>2, <2>3
<1>6. \A n \in 0..Len(blocks) : SubSeq(blocks, 1, n) \in Seq(S)
  <2>. SUFFICES ASSUME NEW n \in 0..Len(blocks)
                PROVE  SubSeq(blocks, 1, n) \in Seq(S)
    OBVIOUS
  <2>1. Len(blocks) \in Nat /\ DOMAIN blocks = 1..Len(blocks)
    BY <1>1, LenProperties
  <2>2. \A i \in 1..n : blocks[i] \in S
    BY <1>3, <2>1
  <2>. HIDE DEF S
  <2>. QED
    BY <2>1, <2>2, SubSeqProperties
<1>7. /\ [plain EXCEPT !.start = GarbledStart] \in [start : Int, padded : BOOLEAN, blocks : Seq(S)]
      /\ [plain EXCEPT !.padded = FALSE] \in [start : Int, padded : BOOLEAN, blocks : Seq(S)]
      /\ \A b \in Seq(S) : /\ [plain EXCEPT !.blocks = b] \in [start : Int, padded : BOOLEAN, blocks : Seq(S)]
                           /\ [plain EXCEPT !.blocks = b, !.padded = FALSE] \in [start : Int, padded : BOOLEAN, blocks : Seq(S)]
  BY <1>1 DEF GarbledStart, Blocks
<1>. QED
  BY <1>5, <1>6, <1>7 DEF DamagedPlain, Blocks

(* The body of a new file is made of its document.                                *)
LEMMA NewBody ==
    ASSUME NEW hdr \in HeaderStates, NEW hash, NEW vals, NEW key
    PROVE  [key |-> KeyOf(CallFor(hdr, key)), iv |-> hdr.iv,
            plain |-> Plain(hdr.startBytes, SplitToBlocks(Xml(hash, vals, SalsaOf(hdr))))]
               \in Bodies(hdr, hash, vals, key)
<1>. DEFINE blocks == SplitToBlocks(Xml(hash, vals, SalsaOf(hdr)))
            B      == Blocks(Xml(hash, vals, SalsaOf(hdr)))
<1>1. blocks \in B
  BY SplitIsBlocks
<1>2. hdr.startBytes \in Int
  BY DEF HeaderStates
<1>. HIDE DEF blocks, B
<1>3. Plain(hdr.startBytes, blocks) \in [start : Int, padded : BOOLEAN, blocks : B]
  BY <1>1, <1>2 DEF Plain
<1>. USE DEF blocks, B
<1>. QED
  BY <1>3 DEF Bodies

(* Lists of values that are edited or revealed are lists of stored values.        *)
LEMMA ValueListsAreStored == ValueLists \subseteq StoredValues
BY BoundsAssumption DEF ValueLists, StoredValues

(* The stream that hid a list of values reveals it.                               *)
LEMMA RevealedIsHidden ==
    ASSUME NEW vals \in StoredValues, NEW stream, stream.at \in Nat
    PROVE  Revealed(Hidden(vals, stream), stream) = vals
BY DEF Revealed, Hidden, StoredValues

(* Any stream reveals a hidden list as a list of stored values.                   *)
LEMMA RevealedIsStored ==
    ASSUME NEW vals \in StoredValues, NEW stream, NEW other
    PROVE  Revealed(Hidden(vals, stream), other) \in StoredValues
<1>. DEFINE r == Revealed(Hidden(vals, stream), other)
<1>1. r \in [1..Len(vals) -> Values \cup {Garbage}]
  BY DEF Revealed, Hidden, StoredValues
<1>. QED
  BY <1>1 DEF StoredValues

(* What is read as the document is the one the file was made with.                *)
LEMMA DocumentIsWritten ==
    ASSUME NEW hdr, NEW hash, MadeWith(hdr, hash), StartBytesMatch, ContentReadable,
           header.startBytes \in Nat
    PROVE  /\ Document = Xml(hash, written.values, SalsaOf(hdr))
           /\ aesKey = file.body.key
           /\ HeaderHashMatches(hash)
<1>. DEFINE xml == Xml(hash, written.values, SalsaOf(hdr))
<1>1. aesKey = file.body.key
  BY DEF StartBytesMatch, Plaintext, Decrypted, GarbledStart
<1>2. Plaintext.blocks = file.body.plain.blocks /\ file.body.plain.blocks \in Blocks(xml)
  BY <1>1 DEF Plaintext, Decrypted, MadeWith, Bodies
<1>3. PICK n \in 0..Len(Plaintext.blocks) : /\ Readable(Plaintext.blocks, n)
                                            /\ Inflatable(Plaintext.blocks, n)
                                            /\ HeaderHashMatches(Document.headerHash)
  BY DEF ContentReadable
<1>4. 1 \in 1..n
  BY <1>3, PiecesAssumption DEF Inflatable
<1>5. 1 \in 1..Len(Plaintext.blocks) /\ Plaintext.blocks[1].data.kind = "piece"
  BY <1>3, <1>4 DEF Inflatable
<1>6. Plaintext.blocks[1].data \in Data(xml)
  <2>. DEFINE S == [id : Int, hash : Data(xml), data : Data(xml)]
  <2>1. Plaintext.blocks \in Seq(S)
    BY <1>2 DEF Blocks
  <2>2. Plaintext.blocks[1] \in S
    <3>. HIDE DEF S
    <3>. QED
      BY <1>5, <2>1, ElementOfSeq
  <2>. QED
    BY <2>2
<1>7. Document = xml
  BY <1>5, <1>6 DEF Document, Data, Garbled, End, Piece
<1>. QED
  BY <1>1, <1>3, <1>7 DEF Xml

(* As long as the file is not touched, it stays what it was made of.              *)
LEMMA FileKept ==
    ASSUME FileInv, UNCHANGED <<file, written>>,
           stage' = "loading" => header' = file.header
    PROVE  FileInv'
BY DEF FileInv, MadeWith

----------------------------------------------------------------------------------
(* The inductive invariant                                                        *)

(* A file of another program, and nothing in memory, satisfy the invariant.       *)
LEMMA InitInv == Init => IInv
<1>. SUFFICES ASSUME Init PROVE IInv
  OBVIOUS
<1>1. PICK key \in Keys, vals \in ValueLists, n \in Rounds :
         /\ \E hash \in {None, Header(1, n)} : file = OldFile(hash, key, vals, Header(1, n))
         /\ written = [values |-> vals, key |-> key, damages |-> 0]
  BY DEF Init
<1>. DEFINE hdr == Header(1, n)
<1>. PICK hash \in {None, hdr} : file = OldFile(hash, key, vals, hdr)
  BY <1>1
<1>2. hdr \in HeaderStates
  BY HeaderIsState
<1>3. file = [header |-> hdr,
              body   |-> [key |-> KeyOf(CallFor(hdr, key)), iv |-> hdr.iv,
                          plain |-> Plain(hdr.startBytes,
                                          SplitToBlocks(Xml(hash, vals, SalsaOf(hdr))))]]
  BY DEF OldFile, FileOf, CallFor, Plain
<1>4. FileTypeOK
  BY <1>2, <1>3, BoundsAssumption DEF Init, TransformInit, FileTypeOK
<1>5. ThreadsInv
  BY DEF Init, TransformInit, ThreadsInv
<1>6. FileInv
  <2>3. file.body \in Bodies(hdr, hash, vals, key)
    BY <1>2, <1>3, NewBody
  <2>4. MadeWith(hdr, hash)
    BY <1>1, <1>3, <2>3 DEF MadeWith
  <2>. QED
    BY <1>1, <1>2, <1>3, <2>4, ValueListsAreStored DEF FileInv, Init
<1>. QED
  BY <1>4, <1>5, <1>6 DEF IInv

(* The steps of load() and of its caller.                                         *)
LEMMA LoadInv ==
    ASSUME IInv, (\E key \in Keys : Unlock(key)) \/ HeaderError \/ LoadEnds \/ Lock
    PROVE  IInv'
<1>. USE DEF IInv
<1>1. CASE \E key \in Keys : Unlock(key)
  <2>. PICK key \in Keys : Unlock(key)
    BY <1>1
  <2>1. ThreadsInv'
    BY BeginThreads, RoundsAssumption DEF Unlock, FileTypeOK, HeaderStates
  <2>2. FileTypeOK'
    BY DEF Unlock, FileTypeOK, TransformBegin
  <2>. QED
    BY <2>1, <2>2, FileKept DEF Unlock
<1>2. CASE HeaderError
  <2>1. UNCHANGED <<stage, header, transformVars>>
    BY <1>2 DEF HeaderError
  <2>2. ThreadsInv'
    BY <1>2, <2>1, RestingThreads DEF HeaderError, FileTypeOK, transformVars
  <2>3. FileTypeOK'
    BY <1>2 DEF HeaderError, FileTypeOK, transformVars, threadVars
  <2>. QED
    BY <1>2, <2>2, <2>3, FileKept DEF HeaderError
<1>3. CASE PaddingError \/ StartBytesError \/ ContentError
  <2>1. Loaded /\ Closed
    BY <1>3 DEF PaddingError, StartBytesError, ContentError
  <2>2. ThreadsInv'
    BY <2>1, ReturnThreads DEF Loaded
  <2>3. FileTypeOK'
    BY <2>1, EmptySeq DEF Loaded, Closed, FileTypeOK, TransformReturn
  <2>. QED
    BY <2>1, <2>2, <2>3, FileKept DEF Loaded, Closed
<1>4. CASE Unlocked
  <2>1. ThreadsInv'
    BY <1>4, ReturnThreads DEF Unlocked, Loaded
  <2>2. values' \in StoredValues
    <3>1. PICK hdr \in HeaderStates, hash \in {None} \cup HeaderStates : MadeWith(hdr, hash)
      BY DEF FileInv
    <3>. DEFINE xml == Xml(hash, written.values, SalsaOf(hdr))
    <3>2. Document = xml
      <4>1. header.startBytes \in Nat
        BY <1>4 DEF Unlocked, Loaded, FileTypeOK, HeaderStates
      <4>. QED
        BY <1>4, <3>1, <4>1, DocumentIsWritten DEF Unlocked
    <3>. QED
      BY <1>4, <3>2, RevealedIsStored DEF Unlocked, Xml, FileInv
  <2>3. FileTypeOK'
    BY <1>4, <2>2 DEF Unlocked, Loaded, TransformReturn, FileTypeOK, StoredValues
  <2>. QED
    BY <1>4, <2>1, <2>3, FileKept DEF Unlocked, Loaded
<1>5. CASE Lock
  <2>1. FileTypeOK'
    BY <1>5, EmptySeq DEF Lock, Closed, FileTypeOK, threadVars
  <2>. QED
    BY <1>5, <2>1, FileKept, RestingThreads DEF Lock, Closed, FileTypeOK
<1>. QED
  BY <1>1, <1>2, <1>3, <1>4, <1>5 DEF LoadEnds

(* The steps of save() and of its caller.                                         *)
LEMMA SaveInv ==
    ASSUME IInv,
           \/ \E key \in Keys : Save(key) \/ SeedError(key)
           \/ SaveEnds
           \/ \E vals \in ValueLists : Edit(vals)
    PROVE  IInv'
<1>. USE DEF IInv
<1>1. CASE \E key \in Keys : Save(key)
  <2>. PICK key \in Keys : Save(key)
    BY <1>1
  <2>1. drawn + 1 \in 0..MaxSaves /\ drawn + 1 \in Nat /\ header.rounds \in Rounds
    BY BoundsAssumption DEF Save, FileTypeOK, HeaderStates
  <2>2. header' \in HeaderStates
    BY <2>1, HeaderIsState DEF Save
  <2>3. ThreadsInv'
    <3>. DEFINE hdr == Header(drawn + 1, header.rounds)
    <3>1. /\ header' = hdr
          /\ combinedKey' = key
          /\ TransformBegin(hdr.masterSeed, hdr.transformSeed, hdr.rounds, key)
      BY DEF Save
    <3>2. hdr.rounds \in Nat
      BY <2>1, RoundsAssumption DEF Header
    <3>. HIDE DEF hdr
    <3>. QED
      BY <3>1, <3>2, BeginThreads
  <2>4. FileTypeOK'
    BY <2>1, <2>2 DEF Save, FileTypeOK, TransformBegin
  <2>. QED
    BY <2>3, <2>4, FileKept DEF Save
<1>2. CASE \E key \in Keys : SeedError(key)
  <2>1. FileTypeOK'
    BY <1>2 DEF SeedError, FileTypeOK, transformVars, threadVars
  <2>. QED
    BY <1>2, <2>1, FileKept, RestingThreads DEF SeedError, FileTypeOK, transformVars,
       ThreadsInv
<1>3. CASE Saved
  <2>1. ThreadsInv'
    BY <1>3, ReturnThreads DEF Saved, Written
  <2>2. aesKey = KeyOf(CallFor(header, combinedKey))
    BY <1>3 DEF Saved, Written, TransformReturn, ThreadsInv
  <2>3. header \in HeaderStates /\ combinedKey \in Keys /\ values \in StoredValues
    BY <1>3 DEF Saved, Written, FileTypeOK, StoredValues
  <2>4. file' = [header |-> header,
                 body   |-> [key |-> KeyOf(CallFor(header, combinedKey)), iv |-> header.iv,
                             plain |-> Plain(header.startBytes,
                                             SplitToBlocks(Xml(header, values, SalsaOf(header))))]]
    BY <1>3, <2>2 DEF Saved, FileOf, InitSalsa20
  <2>5. /\ file'.header \in HeaderStates
        /\ file' = [header |-> file'.header, body |-> file'.body]
        /\ written' \in [values : StoredValues, key : Keys, damages : Nat]
        /\ MadeWith(header, header)'
    <3>1. file'.body \in Bodies(header, header, values, combinedKey)
      BY <2>3, <2>4, NewBody
    <3>2. /\ written' = [values |-> values, key |-> combinedKey, damages |-> 0]
          /\ header' = header
      BY <1>3 DEF Saved, Written
    <3>. QED
      BY <2>3, <2>4, <3>1, <3>2 DEF MadeWith
  <2>6. FileTypeOK'
    BY <1>3, <2>5 DEF Saved, Written, TransformReturn, FileTypeOK
  <2>. QED
    BY <1>3, <2>1, <2>3, <2>5, <2>6 DEF FileInv, Saved, Written
<1>4. CASE SaveError
  <2>1. ThreadsInv'
    BY <1>4, ReturnThreads DEF SaveError, Written
  <2>2. FileTypeOK'
    BY <1>4 DEF SaveError, Written, TransformReturn, FileTypeOK
  <2>. QED
    BY <1>4, <2>1, <2>2, FileKept DEF SaveError, Written
<1>5. CASE \E vals \in ValueLists : Edit(vals)
  <2>1. FileTypeOK'
    BY <1>5, ValueListsAreStored DEF Edit, FileTypeOK, StoredValues, transformVars, threadVars
  <2>. QED
    BY <1>5, <2>1, FileKept, RestingThreads DEF Edit, FileTypeOK, transformVars
<1>. QED
  BY <1>1, <1>2, <1>3, <1>4, <1>5 DEF SaveEnds

(* Damage changes the file, but not what it was made with.                        *)
LEMMA DamageInv == ASSUME IInv, Damage PROVE IInv'
<1>. USE DEF IInv
<1>1. /\ stage' = "closed"
      /\ written' = [written EXCEPT !.damages = @ + 1]
      /\ written.damages \in Nat
      /\ written' \in [values : StoredValues, key : Keys, damages : Nat]
      /\ written'.values = written.values
      /\ written'.key = written.key
      /\ written'.damages # 0
  BY DEF Damage, FileInv
<1>2. file = [header |-> file.header, body |-> file.body]
  BY DEF FileInv
<1>3. PICK hdr \in HeaderStates, hash \in {None} \cup HeaderStates : MadeWith(hdr, hash)
  BY DEF FileInv
<1>. DEFINE xml == Xml(hash, written.values, SalsaOf(hdr))
            P   == [start : Int, padded : BOOLEAN, blocks : Blocks(xml)]
<1>4. /\ file'.header \in HeaderStates
      /\ file' = [header |-> file'.header, body |-> file'.body]
      /\ file'.body \in Bodies(hdr, hash, written.values, written.key)
  <2>1. CASE \E h \in DamagedHeaders(file.header) : file' = [file EXCEPT !.header = h]
    <3>. PICK h \in DamagedHeaders(file.header) : file' = [file EXCEPT !.header = h]
      BY <2>1
    <3>1. h \in HeaderStates
      BY DamagedIsState DEF FileTypeOK
    <3>. QED
      BY <1>2, <1>3, <3>1 DEF MadeWith
  <2>2. CASE \E p \in DamagedPlain(file.body.plain) : file' = [file EXCEPT !.body.plain = p]
    <3>. PICK p \in DamagedPlain(file.body.plain) : file' = [file EXCEPT !.body.plain = p]
      BY <2>2
    <3>1. /\ file.body.plain \in P
          /\ file.body = [key |-> file.body.key, iv |-> file.body.iv, plain |-> file.body.plain]
      BY <1>3 DEF MadeWith, Bodies
    <3>2. p \in P
      BY <3>1, DamagedIsPlain
    <3>3. file' = [header |-> file.header,
                   body |-> [key |-> file.body.key, iv |-> file.body.iv, plain |-> p]]
      BY <1>2, <3>1
    <3>. QED
      BY <1>3, <3>2, <3>3 DEF MadeWith, Bodies, FileTypeOK
  <2>. QED
    BY <2>1, <2>2 DEF Damage
<1>5. MadeWith(hdr, hash)'
  BY <1>1, <1>3, <1>4 DEF MadeWith
<1>6. FileInv'
  BY <1>1, <1>4, <1>5 DEF FileInv
<1>7. FileTypeOK'
  BY <1>4 DEF Damage, FileTypeOK, transformVars, threadVars
<1>8. ThreadsInv'
  BY RestingThreads DEF Damage, FileTypeOK, transformVars
<1>. QED
  BY <1>6, <1>7, <1>8

(* Every step preserves the invariant.                                            *)
LEMMA NextInv == IInv /\ [Next]_vars => IInv'
<1>. SUFFICES ASSUME IInv, [Next]_vars PROVE IInv'
  OBVIOUS
<1>1. CASE Transform /\ UNCHANGED fileVars
  <2>1. ThreadsInv'
    BY <1>1, StepThreads DEF IInv
  <2>2. FileTypeOK'
    BY <1>1 DEF IInv, FileTypeOK, ThreadsInv, fileVars, Transform, Worker, Caller, WorkerStart,
       WorkerRound, WorkerStore, CallerRound, CallerStore, CallerJoin
  <2>. QED
    BY <1>1, <2>1, <2>2, FileKept DEF IInv, fileVars, FileInv
<1>2. CASE UNCHANGED vars
  <2>1. ThreadsInv'
    BY <1>2 DEF IInv, ThreadsInv, HalfKey, CallFor, vars, fileVars, transformVars, threadVars, frame
  <2>2. FileTypeOK'
    BY <1>2 DEF IInv, FileTypeOK, vars, fileVars, transformVars, threadVars
  <2>. QED
    BY <1>2, <2>1, <2>2, FileKept DEF IInv, vars, fileVars, FileInv
<1>. QED
  BY <1>1, <1>2, LoadInv, SaveInv, DamageInv DEF Next

(* The inductive invariant holds in every reachable state.               *)
THEOREM Invariance == Spec => []IInv
BY InitInv, NextInv, PTL DEF Spec

(* FileV4 is type correct.                                                        *)
THEOREM TypeCorrect == Spec => []FileTypeOK
BY Invariance, PTL DEF IInv

(* The other thread of transformKey() never meets a buffer whose frame is gone,   *)
(* for any number of rounds (PwDatabase.cpp:141).                                 *)
THEOREM FrameAlwaysOutlivesWorker == Spec => []FrameOutlivesWorker
<1>1. IInv => FrameOutlivesWorker
  BY DEF IInv, ThreadsInv, FrameOutlivesWorker, HalfKey, SubKey, Gone
<1>. QED
  BY <1>1, Invariance, PTL

(* transformKey() returns the key with all rounds of both halves, under any       *)
(* schedule of the threads (PwDatabase.cpp:144).                                  *)
THEOREM KeyIsAlwaysComplete == Spec => []KeyIsComplete
<1>1. IInv => KeyIsComplete
  BY DEF IInv, ThreadsInv, KeyIsComplete
<1>. QED
  BY <1>1, Invariance, PTL

----------------------------------------------------------------------------------
(* Loading                                                                        *)

(* Keys of two calls are the same only if the composite keys are.                 *)
LEMMA KeyOfInjective ==
    ASSUME NEW hdr1, NEW hdr2, NEW key1, NEW key2,
           KeyOf(CallFor(hdr1, key1)) = KeyOf(CallFor(hdr2, key2))
    PROVE  key1 = key2
BY DEF KeyOf, CallFor, TransformedKey, SubKey

(* A file opens only with the key that it was saved with, and with a hash of the  *)
(* header only as it was saved, whatever was damaged (PwDatabaseV4.cpp:505, 669). *)
THEOREM FilesOpenAsSaved == Spec => OpensAsSaved
<1>1. IInv /\ [Next]_vars =>
        [stage = "loading" /\ stage' = "open" =>
            /\ combinedKey = written.key
            /\ Document.headerHash # None => values' = written.values]_vars
  <2>. SUFFICES ASSUME IInv, Next, stage = "loading", stage' = "open"
                PROVE  /\ combinedKey = written.key
                       /\ Document.headerHash # None => values' = written.values
    OBVIOUS
  <2>1. Unlocked
    BY DEF Next, Unlock, Save, SeedError, HeaderError, LoadEnds, PaddingError, StartBytesError,
       ContentError, SaveEnds, Saved, SaveError, Written, Edit, Lock, Damage, Closed, fileVars
  <2>2. PICK hdr \in HeaderStates, hash \in {None} \cup HeaderStates : MadeWith(hdr, hash)
    BY DEF IInv, FileInv
  <2>3. /\ Document = Xml(hash, written.values, SalsaOf(hdr))
        /\ aesKey = file.body.key
        /\ HeaderHashMatches(hash)
    <3>1. header.startBytes \in Nat
      BY DEF IInv, FileTypeOK, HeaderStates
    <3>. QED
      BY <2>1, <2>2, <3>1, DocumentIsWritten DEF Unlocked
  <2>4. aesKey = KeyOf(CallFor(header, combinedKey))
    BY <2>1 DEF IInv, ThreadsInv, Unlocked, Loaded, TransformReturn
  <2>5. file.body.key = KeyOf(CallFor(hdr, written.key))
    BY <2>2 DEF MadeWith, Bodies
  <2>6. combinedKey = written.key
    BY <2>3, <2>4, <2>5, KeyOfInjective
  <2>7. ASSUME hash # None PROVE values' = written.values
    <3>1. hash = hdr /\ hash = header
      BY <2>2, <2>3, <2>7 DEF HeaderHashMatches, MadeWith
    <3>2. values' = Revealed(Hidden(written.values, SalsaOf(header)), SalsaOf(header))
      BY <2>1, <2>3, <3>1 DEF Unlocked, Xml, InitSalsa20
    <3>3. written.values \in StoredValues /\ SalsaOf(header).at \in Nat
      BY DEF IInv, FileInv, SalsaOf
    <3>. QED
      BY <3>2, <3>3, RevealedIsHidden
  <2>. QED
    BY <2>3, <2>6, <2>7 DEF Xml
<1>. QED
  BY <1>1, Invariance, PTL DEF Spec, OpensAsSaved

(* The blocks of an undamaged file can be read and inflated.                      *)
LEMMA SplitIsReadable ==
    ASSUME NEW xml
    PROVE  /\ Len(SplitToBlocks(xml)) = Pieces + 1
           /\ Readable(SplitToBlocks(xml), Pieces)
           /\ Inflatable(SplitToBlocks(xml), Pieces)
           /\ SplitToBlocks(xml)[1].data.xml = xml
<1>. DEFINE blocks == SplitToBlocks(xml)
<1>1. /\ DOMAIN blocks = 1..(Pieces + 1)
      /\ \A i \in 1..Pieces : blocks[i] = Block(i - 1, Piece(xml, i), Piece(xml, i))
      /\ blocks[Pieces + 1] = Block(Pieces, End, End)
      /\ 1 \in 1..Pieces /\ Pieces \in Nat
      /\ Pieces + 1 \in 1..(Pieces + 1)
  BY PiecesAssumption DEF SplitToBlocks
<1>2. Len(blocks) = Pieces + 1
  BY <1>1, SplitIsBlocks, LenProperties DEF Blocks
<1>. HIDE DEF blocks
<1>3. \A i \in 1..Pieces : /\ BlockAt(blocks, i) = blocks[i]
                           /\ blocks[i].id = i - 1
                           /\ blocks[i].data = Piece(xml, i)
                           /\ blocks[i].hash = Piece(xml, i)
  <2>. SUFFICES ASSUME NEW i \in 1..Pieces
                PROVE  /\ BlockAt(blocks, i) = blocks[i]
                       /\ blocks[i].id = i - 1
                       /\ blocks[i].data = Piece(xml, i)
                       /\ blocks[i].hash = Piece(xml, i)
    OBVIOUS
  <2>1. i \in DOMAIN blocks
    BY <1>1
  <2>2. blocks[i] = Block(i - 1, Piece(xml, i), Piece(xml, i))
    BY <1>1
  <2>. QED
    BY <2>1, <2>2 DEF BlockAt, Block
<1>4. \A i \in 1..Pieces : Piece(xml, i) # End
  BY DEF Piece, End
<1>5. Readable(blocks, Pieces)
  BY <1>1, <1>3, <1>4 DEF Readable, BlockAt
<1>6. Inflatable(blocks, Pieces) /\ blocks[1].data.xml = xml
  <2>1. \A i \in 1..Pieces : /\ blocks[i].data.kind = "piece"
                             /\ blocks[i].data.index = i
                             /\ blocks[i].data.xml = xml
    <3>. SUFFICES ASSUME NEW i \in 1..Pieces
                  PROVE  /\ blocks[i].data.kind = "piece"
                         /\ blocks[i].data.index = i
                         /\ blocks[i].data.xml = xml
      OBVIOUS
    <3>1. blocks[i].data = Piece(xml, i)
      BY <1>3
    <3>. QED
      BY <3>1 DEF Piece
  <2>. QED
    BY <1>1, <2>1 DEF Inflatable
<1>. QED
  BY <1>2, <1>5, <1>6 DEF blocks

(* A file that nothing has damaged is never refused to its own key                *)
(* (PwDatabaseV4.cpp:594, 796, 912).                                              *)
THEOREM IntactFilesOpen == Spec => IntactOpens
<1>1. IInv /\ [Next]_vars =>
        [stage = "loading" /\ stage' = "closed" =>
            written.damages > 0 \/ combinedKey # written.key]_vars
  <2>. SUFFICES ASSUME IInv, Next, stage = "loading", stage' = "closed",
                       written.damages = 0, combinedKey = written.key
                PROVE  FALSE
    BY DEF IInv, FileInv
  <2>1. PaddingError \/ StartBytesError \/ ContentError
    BY DEF Next, Unlock, Save, SeedError, HeaderError, LoadEnds, Unlocked, SaveEnds, Saved,
       SaveError, Written, Edit, Lock, Damage, fileVars
  <2>2. PICK hdr \in HeaderStates, hash \in {None} \cup HeaderStates : MadeWith(hdr, hash)
    BY DEF IInv, FileInv
  <2>. DEFINE xml == Xml(hash, written.values, SalsaOf(hdr))
  <2>3. /\ header = hdr
        /\ file.body.iv = hdr.iv
        /\ file.body.key = KeyOf(CallFor(hdr, written.key))
        /\ file.body.plain = Plain(hdr.startBytes, SplitToBlocks(xml))
    BY <2>2 DEF IInv, FileInv, MadeWith, Bodies
  <2>4. aesKey = KeyOf(CallFor(header, combinedKey))
    BY <2>1 DEF IInv, ThreadsInv, PaddingError, StartBytesError, ContentError, Loaded,
       TransformReturn
  <2>5. Plaintext = Plain(hdr.startBytes, SplitToBlocks(xml))
    BY <2>3, <2>4 DEF Plaintext, Decrypted
  <2>6. Plaintext.padded /\ StartBytesMatch /\ Plaintext.blocks = SplitToBlocks(xml)
    BY <2>3, <2>5 DEF StartBytesMatch, Plain
  <2>7. Document = xml /\ HeaderHashMatches(Document.headerHash)
    BY <2>2, <2>3, <2>6, SplitIsReadable DEF Document, HeaderHashMatches, Xml, MadeWith
  <2>8. ContentReadable
    <3>1. Pieces \in 0..Len(Plaintext.blocks)
      BY <2>6, SplitIsReadable, PiecesAssumption
    <3>. QED
      BY <2>6, <2>7, <3>1, SplitIsReadable DEF ContentReadable
  <2>. QED
    BY <2>1, <2>6, <2>8 DEF PaddingError, StartBytesError, ContentError
<1>. QED
  BY <1>1, Invariance, PTL DEF Spec, IntactOpens

====================================================================================
