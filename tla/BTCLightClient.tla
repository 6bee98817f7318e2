--------------------------- MODULE BTCLightClient ---------------------------
(***************************************************************************)
(* x/btclightclient: the chain of Bitcoin headers with the most work that  *)
(* was reported to Babylon.                                                *)
(*                                                                         *)
(* The module keeps two stores that must agree, headers by height and      *)
(* heights by hash. MsgInsertHeaders either extends the tip or replaces    *)
(* the headers above a known parent by a fork with more work. Hooks tell   *)
(* other modules what was rolled back and what was inserted; `mirror` is   *)
(* what a listener knows that applies these calls one after the other.     *)
(*                                                                         *)
(* A header is a model value with a parent and a difficulty. Proof of work *)
(* itself is external: a header states its difficulty, and btcd compares   *)
(* it with the one that follows from the header's ancestors.               *)
(***************************************************************************)
EXTENDS Integers, Sequences, FiniteSets

CONSTANTS Headers, Parent, Bits, Base,
          BaseHeight,   \* height of the base header
          Interval,     \* blocks per difficulty period (2016 on Bitcoin)
          Retarget,     \* the difficulty of the period after the one a header opens
          Reporters,    \* accounts that send MsgInsertHeaders
          MaxMsg        \* bound: headers in a message

ASSUME HeadersAssumption == /\ Base \in Headers
                            /\ Parent \in [Headers \ {Base} -> Headers]
                            /\ Bits \in [Headers -> Nat \ {0}]
                            /\ Retarget \in [Headers -> Nat \ {0}]

\* Validate of the genesis state: the base header opens a difficulty period.
ASSUME BaseAssumption == /\ BaseHeight \in Nat
                         /\ Interval \in Nat \ {0}
                         /\ BaseHeight % Interval = 0
                         /\ MaxMsg \in Nat

VARIABLES headers,        \* the store height -> header info
          hashToHeight,   \* the store hash -> height
          allowList,      \* InsertHeadersAllowList of the parameters
          mirror          \* height -> hash, as a listener of the hooks knows it

vars == <<headers, hashToHeight, allowList, mirror>>

-----------------------------------------------------------------------------
(* The stores.                                                             *)

HeaderInfo(h, height, work) == [hash |-> h, height |-> height, work |-> work]

Removed(f, S) == [x \in DOMAIN f \ S |-> f[x]]

GetTip(hs) == hs[CHOOSE k \in DOMAIN hs : \A j \in DOMAIN hs : j <= k]

HeaderExists(h) == h \in DOMAIN hashToHeight

GetHeaderByHash(h) == headers[hashToHeight[h]]

\* insertHeader for every info of a sequence of infos, in order.
InsertedHeights(hs, infos) ==
    [k \in DOMAIN hs \cup {infos[i].height : i \in DOMAIN infos} |->
        IF \E i \in DOMAIN infos : infos[i].height = k
        THEN infos[CHOOSE i \in DOMAIN infos : infos[i].height = k]
        ELSE hs[k]]

InsertedHashes(hh, infos) ==
    [h \in DOMAIN hh \cup {infos[i].hash : i \in DOMAIN infos} |->
        IF \E i \in DOMAIN infos : infos[i].hash = h
        THEN infos[CHOOSE i \in DOMAIN infos : infos[i].hash = h].height
        ELSE hh[h]]

\* rollBackHeadersUpTo: every stored header above the height is deleted from
\* both stores.
AboveHeight(height) == {k \in DOMAIN headers : k > height}

\* Mutant: a roll back leaves the index by hash alone.
RolledBackHashesKept(height) == hashToHeight
RolledBackHashes(height) ==
    Removed(hashToHeight, {headers[k].hash : k \in AboveHeight(height)})
RolledBackHeights(height) == Removed(headers, AboveHeight(height))

-----------------------------------------------------------------------------
(* Validation of a message: types/btc_light_client.go.                     *)

headersFormChain(msg) ==
    \A i \in 2..Len(msg) : msg[i] # Base /\ Parent[msg[i]] = msg[i - 1]

CalcHeaderWork(h) == Bits[h]

\* The infos processNewHeadersChain gives to the headers of a message.
CumulativeWork(parent, msg) ==
    LET work[i \in 0..Len(msg)] ==
            IF i = 0 THEN parent.work ELSE work[i - 1] + CalcHeaderWork(msg[i])
    IN  work

ExtensionChain(parent, msg) ==
    LET work == CumulativeWork(parent, msg)
    IN  [i \in 1..Len(msg) |-> HeaderInfo(msg[i], parent.height + i, work[i])]

\* Mutant: the ancestor is read from the stored chain.
getStoredHeaderAtHeight(ext, i, height) ==
    IF height \in DOMAIN headers
    THEN headers[height].hash
    ELSE ext[height - ext[1].height + 1].hash

\* getHeaderAtHeight: the i - 1 headers of the message that are checked
\* already come before the store.
getHeaderAtHeight(ext, i, height) ==
    IF i = 1 \/ height < ext[1].height
    THEN headers[height].hash
    ELSE ext[height - ext[1].height + 1].hash

\* The difficulty btcd asks of the i-th header of a message: the one of its
\* parent, or at the start of a period the one that follows from the header
\* that opened the last period (RelativeAncestorCtx).
RequiredBits(ext, i) ==
    IF ext[i].height % Interval # 0
    THEN Bits[getHeaderAtHeight(ext, i, ext[i].height - 1)]
    ELSE Retarget[getHeaderAtHeight(ext, i, ext[i].height - Interval)]

checkHeaders(ext) == \A i \in DOMAIN ext : Bits[ext[i].hash] = RequiredBits(ext, i)

\* Mutant: a fork with the same work wins.
EnoughWorkOnTie(ext) == ext[Len(ext)].work >= GetTip(headers).work

EnoughWork(ext) == ext[Len(ext)].work > GetTip(headers).work

-----------------------------------------------------------------------------
(* Hooks: AfterBTCRollBack, then AfterBTCHeaderInserted and                *)
(* AfterBTCRollForward for every inserted header.                          *)

\* Mutant: listeners are not told of a roll back.
MirrorRolledBackLate(to) == mirror

MirrorRolledBack(to) == Removed(mirror, {k \in DOMAIN mirror : k > to.height})

MirrorInserted(m, ext) ==
    [k \in DOMAIN m \cup {ext[i].height : i \in DOMAIN ext} |->
        IF \E i \in DOMAIN ext : ext[i].height = k
        THEN ext[CHOOSE i \in DOMAIN ext : ext[i].height = k].hash
        ELSE m[k]]

-----------------------------------------------------------------------------
Init ==
    LET base == HeaderInfo(Base, BaseHeight, CalcHeaderWork(Base))
    IN  /\ headers = [k \in {BaseHeight} |-> base]
        /\ hashToHeight = [h \in {Base} |-> BaseHeight]
        /\ allowList = {}
        /\ mirror = [k \in {BaseHeight} |-> Base]

canInsertHeaders(r) == allowList = {} \/ r \in allowList

\* A message whose headers do not form a chain is rejected at once.
Messages == {msg \in UNION {[1..n -> Headers] : n \in 1..MaxMsg} : headersFormChain(msg)}

\* InsertHeaders when the first header's parent is the tip.
ExtendTip(r, msg) ==
    LET tip == GetTip(headers)
        ext == ExtensionChain(tip, msg)
    IN  /\ canInsertHeaders(r)
        /\ msg[1] # Base
        /\ Parent[msg[1]] = tip.hash
        /\ checkHeaders(ext)
        /\ headers' = InsertedHeights(headers, ext)
        /\ hashToHeight' = InsertedHashes(hashToHeight, ext)
        /\ mirror' = MirrorInserted(mirror, ext)
        /\ UNCHANGED allowList

\* InsertHeaders when it is not: a fork is accepted if it has more work.
SwitchToFork(r, msg) ==
    /\ canInsertHeaders(r)
    /\ msg[1] # Base
    /\ Parent[msg[1]] # GetTip(headers).hash
    /\ ~HeaderExists(msg[1])
    /\ HeaderExists(Parent[msg[1]])
    /\ LET to  == GetHeaderByHash(Parent[msg[1]])
           ext == ExtensionChain(to, msg)
       IN  /\ checkHeaders(ext)
           /\ EnoughWork(ext)
           /\ headers' = InsertedHeights(RolledBackHeights(to.height), ext)
           /\ hashToHeight' = InsertedHashes(RolledBackHashes(to.height), ext)
           /\ mirror' = MirrorInserted(MirrorRolledBack(to), ext)
           /\ UNCHANGED allowList

UpdateParams(L) ==
    /\ allowList' = L
    /\ UNCHANGED <<headers, hashToHeight, mirror>>

Next == \/ \E r \in Reporters, msg \in Messages : ExtendTip(r, msg)
        \/ \E r \in Reporters, msg \in Messages : SwitchToFork(r, msg)
        \/ \E L \in SUBSET Reporters : UpdateParams(L)

Spec == Init /\ [][Next]_vars

-----------------------------------------------------------------------------
(* Genesis: ExportGenesis returns GetMainChainFrom(0), InitGenesis inserts *)
(* the exported infos into empty stores.                                   *)

GetMainChainFrom(start) ==
    LET heights == {k \in DOMAIN headers : k >= start}
    IN  [i \in 1..Cardinality(heights) |->
            headers[CHOOSE k \in heights : Cardinality({j \in heights : j < k}) = i - 1]]

ExportGenesis == GetMainChainFrom(0)

InitGenesisHeights(infos) == InsertedHeights(<<>>, infos)
InitGenesisHashes(infos) == InsertedHashes(<<>>, infos)

-----------------------------------------------------------------------------
TypeOK ==
    /\ DOMAIN headers \subseteq Nat /\ DOMAIN headers # {}
    /\ \A k \in DOMAIN headers :
          headers[k] \in [hash : Headers, height : Nat, work : Nat]
    /\ DOMAIN hashToHeight \subseteq Headers
    /\ \A h \in DOMAIN hashToHeight : hashToHeight[h] \in Nat
    /\ allowList \subseteq Reporters
    /\ DOMAIN mirror \subseteq Nat

\* Heights are contiguous from the base header up, each header's parent is the
\* one below it, and the hash index has an entry for exactly these headers.
OneChain ==
    /\ BaseHeight \in DOMAIN headers
    /\ \A k \in DOMAIN headers :
          /\ headers[k].height = k
          /\ k = BaseHeight => headers[k].hash = Base
          /\ k # BaseHeight => /\ k - 1 \in DOMAIN headers
                              /\ headers[k].hash # Base
                              /\ Parent[headers[k].hash] = headers[k - 1].hash
          /\ headers[k].hash \in DOMAIN hashToHeight
    /\ \A h \in DOMAIN hashToHeight :
          /\ hashToHeight[h] \in DOMAIN headers
          /\ headers[hashToHeight[h]].hash = h

\* The two stores describe one and the same chain, whatever was rolled back
\* and inserted. GetHeaderByHash panics when the index has a hash whose height
\* is gone, MainChainDepth when a stored header is above the tip, and an index
\* entry left behind by a roll back would let a later message fork off a header
\* that is not in the chain. So a chain that is exported and imported again has
\* the same two stores. The state is well typed.
StoresAgree ==
    /\ TypeOK
    /\ OneChain
    /\ InitGenesisHeights(ExportGenesis) = headers
    /\ InitGenesisHashes(ExportGenesis) = hashToHeight

\* The first header of every difficulty period states the difficulty that
\* follows from the header that opened the period before it in its own chain,
\* and every other header the difficulty of its parent. checkHeader looks
\* ancestors up by height, in the store below the fork and in the message
\* above it, where the store still holds the chain that is being replaced.
DifficultyOfOwnChain ==
    \A k \in DOMAIN headers \ {BaseHeight} :
        Bits[headers[k].hash] = IF k % Interval = 0
                                THEN Retarget[headers[k - Interval].hash]
                                ELSE Bits[headers[k - 1].hash]

\* A listener that applies AfterBTCRollBack and AfterBTCHeaderInserted in the
\* order of the calls knows the stored chain exactly.
HooksTellTheChain == mirror = [k \in DOMAIN headers |-> headers[k].hash]
=============================================================================
