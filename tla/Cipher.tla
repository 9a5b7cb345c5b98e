------------------------------- MODULE Cipher -------------------------------
(***************************************************************************)
(* The stream cipher of encrypt.c: one encrypting context per direction of *)
(* a connection at the sender, one decrypting context at the receiver, and *)
(* the iv_cache all the receiver's connections share through cipher_env_t. *)
(*                                                                         *)
(* A byte on the wire is a byte of the IV or the n-th byte of the stream   *)
(* xored with one position of the keystream of that IV; decrypting it at   *)
(* another position, or under another IV, gives garbage (0).  Of a method  *)
(* only who computes the position matters: a "core" method leaves it to    *)
(* the crypto library, a "sodium" one (salsa20, chacha20) keeps a byte     *)
(* counter and pads each chunk up to a block boundary.                     *)
(***************************************************************************)
EXTENDS Naturals, FiniteSets, LruCache

CONSTANTS
    Loads,        \* bytes each connection sends: <<12>> is one connection of 12
    MaxIvs,       \* bound: different IVs drawn
    Methods,      \* subset of {"core", "sodium"}
    IvLen,        \* env->enc_iv_len
    BlockSize,    \* SODIUM_BLOCK_SIZE
    CacheSize,    \* the 256 of enc_key_init
    MaxChunk      \* bound: bytes of one ss_encrypt or ss_decrypt

(* The methods modelled have an IV; a cache of one entry would keep none. *)
ASSUME CipherAssumption ==
    /\ \A l \in Loads : \A c \in DOMAIN l : l[c] \in Nat
    /\ MaxIvs \in Nat /\ MaxChunk \in Nat /\ Methods \subseteq {"core", "sodium"}
    /\ IvLen \in Nat \ {0} /\ BlockSize \in Nat \ {0}
    /\ CacheSize \in Nat /\ CacheSize > 1

VARIABLES
    method,       \* env->enc_method
    iv_cache,     \* env->iv_cache of the receiver
    conn,         \* the contexts and the wire of every connection
    presented     \* history: the IVs of first chunks, and whether accepted

cipherVars == <<method, iv_cache, conn, presented>>

IvByte(iv) == [kind |-> "iv", iv |-> iv, at |-> 0, byte |-> 0]

DataByte(iv, at, n) == [kind |-> "data", iv |-> iv, at |-> at, byte |-> n]

(* struct enc_ctx; counter stands for the library's own position too. *)
enc_ctx_new_instance(iv) == [init |-> FALSE, counter |-> 0, iv |-> iv]

NoIv == 0

Unopened(limit) ==
    [limit |-> limit, state |-> "unopened", enc |-> enc_ctx_new_instance(NoIv),
     dec |-> enc_ctx_new_instance(NoIv), sent |-> 0, wire |-> <<>>, got |-> <<>>]

CipherInit ==
    /\ method \in Methods
    /\ iv_cache = <<>>
    /\ conn \in {[c \in DOMAIN l |-> Unopened(l[c])] : l \in Loads}
    /\ presented = <<>>

Keystream_unpadded(ctx, k) ==   \* mutant: every chunk starts a block
    IF method = "core" THEN ctx.counter + k
    ELSE (ctx.counter \div BlockSize) * BlockSize + k

(* The keystream position of the k-th byte of a chunk: crypto_stream_xor_ic *)
(* starts at the block of the counter, the padding skips into it.           *)
Keystream(ctx, k) ==
    IF method = "core" THEN ctx.counter + k
    ELSE LET padding == ctx.counter % BlockSize
         IN  (ctx.counter \div BlockSize) * BlockSize + padding + k

set_iv(ctx, iv) == [init |-> TRUE, counter |-> 0, iv |-> iv]

(* ss_encrypt of the next len bytes of the stream. *)
ss_encrypt(s, len) ==
    LET ctx == IF s.enc.init THEN s.enc ELSE set_iv(s.enc, s.enc.iv)
        head == IF s.enc.init THEN <<>> ELSE [i \in 1..IvLen |-> IvByte(ctx.iv)]
        data == [i \in 1..len |-> DataByte(ctx.iv, Keystream(ctx, i - 1), s.sent + i)]
    IN  [s EXCEPT !.enc = [ctx EXCEPT !.counter = @ + len],
                  !.wire = @ \o head \o data,
                  !.sent = @ + len]

Plain(ctx, data) ==
    [i \in DOMAIN data |->
        IF data[i].iv = ctx.iv /\ data[i].at = Keystream(ctx, i - 1)
        THEN data[i].byte ELSE 0]

(* The second half of ss_decrypt, on what follows the IV in the chunk. *)
update(s, ctx, chunk, iv_len) ==
    LET data == SubSeq(chunk, iv_len + 1, Len(chunk))
    IN  [s EXCEPT !.dec = [ctx EXCEPT !.counter = @ + Len(data)],
                  !.wire = SubSeq(@, Len(chunk) + 1, Len(@)),
                  !.got = @ \o Plain(ctx, data)]

Opened(s, iv) == [s EXCEPT !.state = "open", !.enc = enc_ctx_new_instance(iv)]

Conns == DOMAIN conn

Drawn == {conn[c].enc.iv : c \in Conns} \ {NoIv}

(* tunnel_cipher_create makes the contexts of a connection; the encrypting *)
(* one draws its IV: one that was drawn before, or the next new one.       *)
Connect(c, iv) ==
    /\ conn[c].state = "unopened"
    /\ iv <= Cardinality(Drawn) + 1
    /\ \A d \in Conns : d < c => conn[d].state # "unopened"
    /\ conn' = [conn EXCEPT ![c] = Opened(@, iv)]
    /\ UNCHANGED <<method, iv_cache, presented>>

Encrypt(c, len) ==
    /\ conn[c].state = "open"
    /\ conn[c].sent + len <= conn[c].limit
    /\ len = 0 => ~conn[c].enc.init
    /\ conn' = [conn EXCEPT ![c] = ss_encrypt(@, len)]
    /\ UNCHANGED <<method, iv_cache, presented>>

decrypt_first_swapped(c, chunk) ==   \* mutant: inserted, then looked up
    LET iv == chunk[1].iv
    IN  /\ conn' = [conn EXCEPT ![c].state = "refused",
                                ![c].dec = set_iv(@, iv)]
        /\ iv_cache' = cache_insert(iv_cache, CacheSize, Entry(iv, NoIv, 0)).cache
        /\ presented' = Append(presented, [iv |-> iv, ok |-> FALSE])

(* ss_decrypt of the first chunk, which must hold the whole IV: with fewer *)
(* bytes plain->len wraps and the copies run over the buffers.  A cached   *)
(* IV makes it return -1 and the caller closes the connection; the hit     *)
(* moves the IV to the end of the cache.                                   *)
decrypt_first(c, chunk) ==
    LET s == conn[c]
        iv == chunk[1].iv
        ctx == set_iv(s.dec, iv)
    IN  CASE Len(chunk) < IvLen ->
               /\ conn' = [conn EXCEPT ![c].state = "overrun"]
               /\ UNCHANGED <<iv_cache, presented>>
          [] Len(chunk) >= IvLen /\ Has(iv_cache, iv) ->
               /\ conn' = [conn EXCEPT ![c].state = "refused", ![c].dec = ctx]
               /\ iv_cache' = cache_key_exist(iv_cache, iv, 0)
               /\ presented' = Append(presented, [iv |-> iv, ok |-> FALSE])
          [] OTHER ->
               /\ conn' = [conn EXCEPT ![c] = update(s, ctx, chunk, IvLen)]
               /\ iv_cache' =
                    cache_insert(iv_cache, CacheSize, Entry(iv, NoIv, 0)).cache
               /\ presented' = Append(presented, [iv |-> iv, ok |-> TRUE])

decrypt_next(c, chunk) ==
    /\ conn' = [conn EXCEPT ![c] = update(@, @.dec, chunk, 0)]
    /\ UNCHANGED <<iv_cache, presented>>

(* The wire is cut anywhere: len bytes arrive in one read. *)
Decrypt(c, len) ==
    LET chunk == SubSeq(conn[c].wire, 1, len)
    IN  /\ conn[c].state = "open"
        /\ len \in 1..Len(conn[c].wire)
        /\ IF conn[c].dec.init THEN decrypt_next(c, chunk)
                               ELSE decrypt_first(c, chunk)
        /\ UNCHANGED method

(* Every connection has sent and received all it will. *)
Quiet ==
    /\ \A c \in Conns :
         \/ conn[c].state \in {"refused", "overrun"}
         \/ conn[c].sent = conn[c].limit /\ conn[c].wire = <<>>
    /\ UNCHANGED cipherVars

CipherNext ==
    \/ \E c \in Conns :
         \/ \E iv \in 1..MaxIvs : Connect(c, iv)
         \/ \E len \in 0..MaxChunk : Encrypt(c, len)
         \/ \E len \in 1..MaxChunk + IvLen : Decrypt(c, len)
    \/ Quiet

CipherSpec == CipherInit /\ [][CipherNext]_cipherVars

-----------------------------------------------------------------------------
(* The counters of the two enc_ctx: the encoder's counts the bytes given   *)
(* to ss_encrypt, and ss_decrypt never runs ahead of it.                   *)
CountersAgree ==
    /\ method \in {"core", "sodium"}
    /\ \A c \in Conns :
         /\ conn[c].state \in {"unopened", "open", "refused", "overrun"}
         /\ conn[c].enc.counter = conn[c].sent
         /\ conn[c].dec.counter <= conn[c].enc.counter

(* However the sender cuts its stream into ss_encrypt calls and the        *)
(* network into ss_decrypt calls, the receiver has decrypted a prefix of   *)
(* the stream, and lacks exactly what is still on the wire: the counters   *)
(* of the two contexts name the same keystream position.                   *)
PlainIntact ==
    /\ CountersAgree
    /\ \A c \in Conns :
         LET s == conn[c]
             onWire == {i \in DOMAIN s.wire : s.wire[i].kind = "data"}
         IN  s.state = "open" =>
                 /\ s.got = [i \in 1..Len(s.got) |-> i]
                 /\ Len(s.got) + Cardinality(onWire) = s.sent

(* ss_decrypt accepts an IV twice only when CacheSize - 1 different IVs    *)
(* were presented in between.  The cache evicts as soon as it has          *)
(* CacheSize entries, so it knows one IV less than that; and because a     *)
(* refused repeat also moves its IV to the end, the window is counted in   *)
(* IVs presented and not in IVs accepted.                                  *)
IvWindow ==
    \A i, j \in DOMAIN presented :
        /\ i < j
        /\ presented[i].iv = presented[j].iv
        /\ presented[j].ok
        => Cardinality({presented[k].iv : k \in i + 1 .. j - 1}) >= CacheSize - 1

(* A connection is refused only for an IV an earlier connection was        *)
(* accepted with: ss_decrypt never refuses a fresh one.                    *)
FreshAccepted ==
    \A c \in Conns : conn[c].state = "refused" =>
        \E i \in DOMAIN presented :
            presented[i].ok /\ presented[i].iv = conn[c].dec.iv

(* Whether an IV was seen is answered right in the window the cache of IVs *)
(* promises (encrypt.c): one seen lately is refused, a fresh one accepted. *)
IvsRight == IvWindow /\ FreshAccepted
=============================================================================
