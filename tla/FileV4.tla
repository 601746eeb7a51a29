----------------------------------- MODULE FileV4 -----------------------------------
(***************************************************************************)
(* Saving and loading a KeePass 2 database (db/v4/PwDatabaseV4.cpp): every *)
(* save draws new seeds, transforms the key with them, resets the stream   *)
(* cipher that hides the protected values, writes the header, and puts the *)
(* hash of the header and the values into a compressed document that is cut*)
(* into numbered and hashed blocks and encrypted.  Loading undoes this step*)
(* by step.  Between a save and a load the storage may damage any part of  *)
(* the file, and the user may give any key.                                *)
(*                                                                         *)
(* Ciphers and hashes are symbolic: a hash is what has been hashed, what is*)
(* encrypted comes out only under the key it went in with, and damage to it*)
(* garbles the parts it is in.  The last block of something garbled may by *)
(* chance end like a padding.  KeyTransform has the two threads.           *)
(***************************************************************************)
EXTENDS Integers, Sequences, KeyTransform

CONSTANTS
    Keys,         \* composite keys
    Values,       \* protected values
    Garbage,      \* what a wrongly revealed value reads as
    None,         \* no header hash, as in the files of some other programs
    Rounds,       \* numbers of rounds that a header may ask for
    Pieces,       \* into how many blocks the compressed document is cut
    MaxValues,    \* bound on the number of protected values
    MaxSaves,     \* bound on the number of saves, hence on the seeds drawn
    MaxDamages    \* bound on the number of damaged parts of a file

ASSUME RoundsAssumption  == Rounds \subseteq Nat
ASSUME PiecesAssumption  == Pieces \in Nat \ {0}
ASSUME BoundsAssumption  == {MaxValues, MaxSaves, MaxDamages} \subseteq Nat /\ MaxSaves > 0
ASSUME SymbolsAssumption == Garbage \notin Values

VARIABLES
    file,         \* the file
    stage,        \* "closed", "loading", "open" or "saving"
    header,       \* PwDatabaseV4::header
    combinedKey,  \* PwDatabaseV4::combinedKey
    salsa,        \* PwDatabaseV4::salsa20: its key and how far it is
    values,       \* the protected values, in the order of the document
    signal,       \* the last one that load() has emitted
    drawn,        \* history: the number of random values drawn so far
    written       \* history: what the file has been made of

fileVars == <<file, stage, header, combinedKey, salsa, values, signal, drawn, written>>
vars     == <<fileVars, transformVars>>

----------------------------------------------------------------------------------
(* The document                                                                   *)

(* The five random fields of a header get values of the same draw; "wellFormed"   *)
(* stands for signatures, version, cipher ids and sizes of fields.                *)
Header(seed, rounds) ==
    [wellFormed |-> TRUE, masterSeed |-> seed, transformSeed |-> seed, iv |-> seed,
     streamKey |-> seed, startBytes |-> seed, rounds |-> rounds]

(* Every value takes the next bytes of the stream.                                *)
Hidden(vals, stream) ==
    [i \in DOMAIN vals |->
        [value |-> vals[i], key |-> stream.key, at |-> stream.at + i]]

Revealed(hidden, stream) ==
    [i \in DOMAIN hidden |->
        IF hidden[i].key = stream.key /\ hidden[i].at = stream.at + i
        THEN hidden[i].value ELSE Garbage]

SalsaOf(hdr) == [key |-> hdr.streamKey, at |-> 0]

(* initSalsa20().                                                                 *)
InitSalsa20(hdr) == SalsaOf(hdr)

After(stream, vals) == [stream EXCEPT !.at = @ + Len(vals)]

Xml(hash, vals, stream) == [headerHash |-> hash, values |-> Hidden(vals, stream)]

----------------------------------------------------------------------------------
(* Blocks                                                                         *)

(* A run of data bytes, or a hash: a piece of a compressed document, its end, or  *)
(* what damage has made of it.                                                    *)
Piece(xml, i) == [kind |-> "piece", xml |-> xml, index |-> i]
End           == [kind |-> "end"]
Garbled       == [kind |-> "garbled"]

(* splitToBlocks(): numbered from 0, with the hash of their data; the last one has*)
(* no data and an all-zero hash.                                                  *)
Block(id, hash, data) == [id |-> id, hash |-> hash, data |-> data]

SplitToBlocks(xml) ==
    [i \in 1..(Pieces + 1) |->
        IF i <= Pieces THEN Block(i - 1, Piece(xml, i), Piece(xml, i))
                       ELSE Block(i - 1, End, End)]

(* Beyond the end of the stream zeros are read.                                   *)
BlockAt(blocks, i) == IF i \in DOMAIN blocks THEN blocks[i] ELSE Block(0, End, End)

(* Mutant: the numbers are taken to begin with 1.                                 *)
ReadableFromOne(blocks, n) ==
    /\ \A i \in 1..n : /\ BlockAt(blocks, i).id = i
                       /\ BlockAt(blocks, i).data # End
                       /\ BlockAt(blocks, i).hash = BlockAt(blocks, i).data
    /\ BlockAt(blocks, n + 1) = Block(n + 1, End, End)

(* readBlocks() succeeds, and the data are those of the first n blocks.           *)
Readable(blocks, n) ==
    /\ \A i \in 1..n : /\ BlockAt(blocks, i).id = i - 1
                       /\ BlockAt(blocks, i).data # End
                       /\ BlockAt(blocks, i).hash = BlockAt(blocks, i).data
    /\ BlockAt(blocks, n + 1) = Block(n, End, End)

(* inflateGZipData() succeeds: these are all the pieces of one Document.          *)
Inflatable(blocks, n) ==
    /\ n = Pieces
    /\ \A i \in 1..n : /\ blocks[i].data.kind = "piece"
                       /\ blocks[i].data.index = i
                       /\ blocks[i].data.xml = blocks[1].data.xml

----------------------------------------------------------------------------------
(* Encryption                                                                     *)

(* What is encrypted: the start bytes, the blocks, and the padding.               *)
GarbledStart == -1
Plain(start, blocks) == [start |-> start, blocks |-> blocks, padded |-> TRUE]

(* Under another key everything is garbled; another initial vector garbles the    *)
(* first 16 bytes, which are start bytes.                                         *)
Decrypted(key, iv, body) ==
    IF key # body.key     THEN [start |-> GarbledStart, blocks |-> <<>>, padded |-> FALSE]
    ELSE IF iv # body.iv  THEN [body.plain EXCEPT !.start = GarbledStart]
                          ELSE body.plain

FileOf(hdr, key, vals, stream) ==
    [header |-> hdr,
     body   |-> [key |-> key, iv |-> hdr.iv,
                 plain |-> Plain(hdr.startBytes, SplitToBlocks(Xml(hdr, vals, stream)))]]

----------------------------------------------------------------------------------
(* Loading                                                                        *)

Blank  == [wellFormed |-> FALSE]
NoSalsa == [key |-> 0, at |-> 0]

(* Mutant: the key stays in memory.                                               *)
ClosedKeepingKey ==
    /\ stage' = "closed"
    /\ header' = Blank
    /\ salsa' = NoSalsa
    /\ values' = <<>>
    /\ UNCHANGED <<combinedKey, aesKey>>

(* The facade gives the database up; clear() is part of that.                     *)
Closed ==
    /\ stage' = "closed"
    /\ header' = Blank
    /\ combinedKey' = None
    /\ aesKey' = Gone
    /\ salsa' = NoSalsa
    /\ values' = <<>>

(* load(): the header is read, and the key is transformed.                        *)
Unlock(key) ==
    /\ stage = "closed"
    /\ file.header.wellFormed
    /\ stage' = "loading"
    /\ header' = file.header
    /\ combinedKey' = key
    /\ TransformBegin(file.header.masterSeed, file.header.transformSeed,
                      file.header.rounds, key)
    /\ UNCHANGED <<file, salsa, values, signal, drawn, written>>

(* load() of a file whose header makes no sense.                                  *)
HeaderError ==
    /\ stage = "closed"
    /\ ~file.header.wellFormed
    /\ signal' = "dbLoadError"
    /\ UNCHANGED <<file, stage, header, combinedKey, salsa, values, drawn, written,
                   transformVars>>

(* The rest of load(), when the key is there: Plaintext is what decryptAES() has  *)
(* made of the file.  removePadding16() may be content with garbled bytes.        *)
Plaintext       == Decrypted(aesKey, header.iv, file.body)
StartBytesMatch == Plaintext.start = header.startBytes

(* Mutant: the hash in the document is not looked at.                             *)
HeaderHashIgnored(hash) == TRUE

(* isHeaderHashMatch().                                                           *)
HeaderHashMatches(hash) == hash \in {None, header}

Document == Plaintext.blocks[1].data.xml

ContentReadable ==
    \E n \in 0..Len(Plaintext.blocks) :
        /\ Readable(Plaintext.blocks, n)
        /\ Inflatable(Plaintext.blocks, n)
        /\ HeaderHashMatches(Document.headerHash)

Loaded ==
    /\ stage = "loading"
    /\ TransformReturn
    /\ UNCHANGED <<file, drawn, written>>

PaddingError ==
    /\ Loaded
    /\ ~Plaintext.padded
    /\ Closed
    /\ signal' = "dbLoadError"

StartBytesError ==
    /\ Loaded
    /\ ~StartBytesMatch
    /\ Closed
    /\ signal' = "invalidPasswordOrKey"

ContentError ==
    /\ Loaded
    /\ StartBytesMatch
    /\ ~ContentReadable
    /\ Closed
    /\ signal' = "dbLoadError"

(* initSalsa20() and parseXml().                                                  *)
Unlocked ==
    /\ Loaded
    /\ StartBytesMatch
    /\ ContentReadable
    /\ stage' = "open"
    /\ values' = Revealed(Document.values, InitSalsa20(header))
    /\ salsa' = After(InitSalsa20(header), values')
    /\ signal' = "dbUnlocked"
    /\ UNCHANGED <<header, combinedKey, aesKey>>

----------------------------------------------------------------------------------
(* Saving                                                                         *)

ValueLists == UNION {[1..n -> Values] : n \in 0..MaxValues}

Edit(vals) ==
    /\ stage = "open"
    /\ values' = vals
    /\ UNCHANGED <<file, stage, header, combinedKey, salsa, signal, drawn, written,
                   transformVars>>

(* save() up to transformKey(); a change of the master key has put the new one    *)
(* into combinedKey.                                                              *)
Save(key) ==
    /\ stage = "open"
    /\ drawn < MaxSaves
    /\ stage' = "saving"
    /\ drawn' = drawn + 1
    /\ header' = Header(drawn + 1, header.rounds)
    /\ combinedKey' = key
    /\ TransformBegin(header'.masterSeed, header'.transformSeed, header'.rounds, key)
    /\ UNCHANGED <<file, salsa, values, signal, written>>

(* save() when the random numbers cannot be drawn.                                *)
SeedError(key) ==
    /\ stage = "open"
    /\ combinedKey' = key
    /\ signal' = "dbSaveError"
    /\ UNCHANGED <<file, stage, header, salsa, values, drawn, written, transformVars>>

Written ==
    /\ stage = "saving"
    /\ TransformReturn
    /\ stage' = "open"
    /\ salsa' = After(InitSalsa20(header), values)
    /\ UNCHANGED <<header, combinedKey, aesKey, values, drawn>>

Saved ==
    /\ Written
    /\ file' = FileOf(header, aesKey, values, InitSalsa20(header))
    /\ written' = [values |-> values, key |-> combinedKey, damages |-> 0]
    /\ signal' = "dbSaved"

(* Compressing, hashing, encrypting, or storing the file fails.                   *)
SaveError ==
    /\ Written
    /\ signal' = "dbSaveError"
    /\ UNCHANGED <<file, written>>

Lock ==
    /\ stage = "open"
    /\ Closed
    /\ UNCHANGED <<file, signal, drawn, written, threadVars>>

----------------------------------------------------------------------------------
(* Damage to the file                                                             *)

DamagedHeaders(hdr) ==
    {[hdr EXCEPT !.wellFormed = FALSE], [hdr EXCEPT !.masterSeed = 0],
     [hdr EXCEPT !.transformSeed = 0], [hdr EXCEPT !.iv = 0],
     [hdr EXCEPT !.streamKey = 0], [hdr EXCEPT !.startBytes = 0]}
        \cup {[hdr EXCEPT !.rounds = n] : n \in Rounds \ {hdr.rounds}}

DamagedBlocks(blocks) ==
    UNION {{[blocks EXCEPT ![i].id = -1], [blocks EXCEPT ![i].hash = Garbled],
            [blocks EXCEPT ![i].data = Garbled]} : i \in DOMAIN blocks}

DamagedPlain(plain) ==
    {[plain EXCEPT !.start = GarbledStart], [plain EXCEPT !.padded = FALSE]}
        \cup {[plain EXCEPT !.blocks = b] : b \in DamagedBlocks(plain.blocks)}
        \cup {[plain EXCEPT !.blocks = SubSeq(plain.blocks, 1, n), !.padded = FALSE] :
                  n \in 0..Len(plain.blocks)}

Damage ==
    /\ stage = "closed"
    /\ written.damages < MaxDamages
    /\ \/ \E h \in DamagedHeaders(file.header) : file' = [file EXCEPT !.header = h]
       \/ \E p \in DamagedPlain(file.body.plain) : file' = [file EXCEPT !.body.plain = p]
    /\ written' = [written EXCEPT !.damages = @ + 1]
    /\ UNCHANGED <<stage, header, combinedKey, salsa, values, signal, drawn,
                   transformVars>>

----------------------------------------------------------------------------------
(* The file comes from a program that may put no header hash into it.             *)
OldFile(hash, key, vals, hdr) ==
    [FileOf(hdr, KeyOf([masterSeed |-> hdr.masterSeed, transformSeed |-> hdr.transformSeed,
                        rounds |-> hdr.rounds, key |-> key]), vals, SalsaOf(hdr))
        EXCEPT !.body.plain.blocks = SplitToBlocks(Xml(hash, vals, SalsaOf(hdr)))]

Init ==
    /\ \E key \in Keys, vals \in ValueLists, n \in Rounds :
          /\ \E hash \in {None, Header(1, n)} :
                file = OldFile(hash, key, vals, Header(1, n))
          /\ written = [values |-> vals, key |-> key, damages |-> 0]
    /\ stage = "closed"
    /\ header = Blank
    /\ combinedKey = None
    /\ salsa = NoSalsa
    /\ values = <<>>
    /\ signal = "none"
    /\ drawn = 1
    /\ TransformInit

LoadEnds == PaddingError \/ StartBytesError \/ ContentError \/ Unlocked
SaveEnds == Saved \/ SaveError

Next ==
    \/ \E key \in Keys : Unlock(key) \/ Save(key) \/ SeedError(key)
    \/ HeaderError
    \/ Transform /\ UNCHANGED fileVars
    \/ LoadEnds
    \/ SaveEnds
    \/ \E vals \in ValueLists : Edit(vals)
    \/ Lock
    \/ Damage

(* The two threads get their turns, and the caller goes on when transformKey()    *)
(* returns.                                                                       *)
Fairness ==
    /\ WF_vars(Worker /\ UNCHANGED fileVars)
    /\ WF_vars(Caller /\ UNCHANGED fileVars)
    /\ WF_vars(LoadEnds)
    /\ WF_vars(SaveEnds)

Spec == Init /\ [][Next]_vars /\ Fairness
----------------------------------------------------------------------------------
(* Properties                                                                     *)

HeaderStates == [wellFormed : BOOLEAN, masterSeed : Nat, transformSeed : Nat, iv : Nat,
                 streamKey : Nat, startBytes : Nat, rounds : Rounds]

FileTypeOK ==
    /\ stage \in {"closed", "loading", "open", "saving"}
    /\ callerPc \in {"idle", "rounds", "wait", "done"}
    /\ workerPc \in {"idle", "queued", "rounds", "done"}
    /\ callerPc = "idle" <=> stage \in {"closed", "open"}
    /\ file.header \in HeaderStates
    /\ stage # "closed" => header \in HeaderStates /\ combinedKey \in Keys
    /\ stage = "closed" => header = Blank /\ combinedKey = None /\ values = <<>>
    /\ values \in Seq(Values \cup {Garbage})
    /\ drawn \in 0..MaxSaves

(* Whatever part of the file has been damaged, and whatever key is given: a file  *)
(* opens with the key it has been saved with only, and if it has a header hash,   *)
(* it gives exactly the values that have been saved (PwDatabaseV4.cpp:505, 669).  *)
OpensAsSaved ==
    [][stage = "loading" /\ stage' = "open" =>
          /\ combinedKey = written.key
          /\ Document.headerHash # None => values' = written.values]_vars

(* A file that has not been damaged is never refused to its own key, whatever     *)
(* failed saves, edits and changes of the key came before (PwDatabaseV4.cpp:594,  *)
(* 796, 912).                                                                     *)
IntactOpens ==
    [][stage = "loading" /\ stage' = "closed" =>
          written.damages > 0 \/ combinedKey # written.key]_vars

(* load() and save() return, however the two threads take their turns             *)
(* (PwDatabase.cpp:144).                                                          *)
CallsReturn == stage \in {"loading", "saving"} ~> stage \in {"closed", "open"}
====================================================================================
