----------------------------- MODULE SessionApi -----------------------------
(***************************************************************************)
(* The session endpoints of kinbridge-api that make and trade keys:        *)
(* sessions/start mints a Headscale key and wraps it in a short-lived      *)
(* token, sessions/resolve trades the token for the key.  Every await of a *)
(* handler (Headscale, signing, verifying) lets the others run.  The end   *)
(* of a session is only logged: no token or key is touched.                *)
(*                                                                         *)
(* Time is counted from the moment a thing was made; expired tokens are    *)
(* forgotten.  Operators named Mut_... are never used: each is a plausible *)
(* bug in the definition that follows, and shows that a property can fail. *)
(***************************************************************************)
EXTENDS Naturals, FiniteSets

CONSTANTS
    Sessions,
    TOKEN_TTL,      \* KINBRIDGE_JWT_TTL_SECONDS (120 s by default)
    KEY_TTL,        \* how long a Headscale key is valid (10 min)
    MINT_DELAY,     \* bound: how long Headscale takes to answer; the fetch sets no timeout
    MAX_TOKENS      \* bound: tokens in use

ASSUME ApiAssumption ==
    /\ TOKEN_TTL \in Nat \ {0} /\ KEY_TTL \in Nat \ {0} /\ MINT_DELAY \in Nat
    /\ MAX_TOKENS \in Nat

VARIABLES
    minting,    \* start handlers that wait for Headscale: session, age of the key
    tokens,     \* tokens handed out: session, age, age of the key inside and, as history,
                \* how long Headscale took
    resolved    \* the last answer of resolve: session asked for, and what its token says

apiVars == <<minting, tokens, resolved>>

Token == [sid : Sessions, age : 0 .. TOKEN_TTL, keyAge : 0 .. TOKEN_TTL + MINT_DELAY,
          waited : 0 .. MINT_DELAY]

TypeOK ==
    /\ minting \subseteq [sid : Sessions, keyAge : 0 .. MINT_DELAY]
    /\ tokens \subseteq Token
    /\ resolved \subseteq [id : Sessions, token : Token]

ApiInit ==
    /\ minting = {} /\ tokens = {} /\ resolved = {}

-----------------------------------------------------------------------------
(* Sessions *)

\* The life of a key is counted from before Headscale is asked for it.
Start(s) ==
    /\ \A m \in minting : m.sid # s
    /\ Cardinality(minting) + Cardinality(tokens) < MAX_TOKENS
    /\ minting' = minting \cup {[sid |-> s, keyAge |-> 0]}
    /\ UNCHANGED <<tokens, resolved>>

Minted(m) ==
    /\ minting' = minting \ {m}
    /\ tokens' = tokens \cup {[sid |-> m.sid, age |-> 0, keyAge |-> m.keyAge,
                               waited |-> m.keyAge]}
    /\ UNCHANGED resolved

\* Headscale fails: the caller is told headscale_unavailable.
MintFails(m) ==
    /\ minting' = minting \ {m}
    /\ UNCHANGED <<tokens, resolved>>

Mut_ExpiryIgnored(age) == TRUE

\* jwtVerify accepts the token until it expires.
Verifies(age) == age < TOKEN_TTL

\* The token must be for the session of the URL; it can be resolved again.
Resolve(t, id) ==
    /\ Verifies(t.age)
    /\ t.sid = id
    /\ resolved' = {[id |-> id, token |-> t]}
    /\ UNCHANGED <<minting, tokens>>

-----------------------------------------------------------------------------
\* Headscale answers within MINT_DELAY; expired tokens are forgotten.
Tick ==
    /\ \A m \in minting : m.keyAge < MINT_DELAY
    /\ minting' = {[sid |-> m.sid, keyAge |-> m.keyAge + 1] : m \in minting}
    /\ tokens' = {[sid |-> t.sid, age |-> t.age + 1, keyAge |-> t.keyAge + 1, waited |-> t.waited] :
                    t \in {x \in tokens : x.age < TOKEN_TTL}}
    /\ resolved' = {}

ApiNext ==
    \/ \E s \in Sessions : Start(s)
    \/ \E m \in minting : Minted(m) \/ MintFails(m)
    \/ \E t \in tokens, id \in Sessions : Resolve(t, id)
    \/ Tick

ApiSpec == ApiInit /\ [][ApiNext]_apiVars

-----------------------------------------------------------------------------
(***************************************************************************)
(* "hs_key the Rust core needs to open the tunnel": resolve answers with   *)
(* the key of the session asked for, and hands out an expired key only     *)
(* where Headscale took longer to make it than the life of a key exceeds   *)
(* the life of a token (480 s by default; a KINBRIDGE_JWT_TTL_SECONDS of   *)
(* 3600 leaves nothing to exceed, and every key may be resolved dead).     *)
(***************************************************************************)
ResolvedKeyAlive ==
    \A r \in resolved :
        /\ r.id = r.token.sid
        /\ r.token.keyAge >= KEY_TTL => r.token.waited + TOKEN_TTL > KEY_TTL
=============================================================================
