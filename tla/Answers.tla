--------------------------------- MODULE Answers ---------------------------------
(***************************************************************************)
(* What an answer of the Binance Web3 API means: envelope.ts says whether  *)
(* it is a success, taxonomy.ts what to do when it is not.  An answer is   *)
(* an HTTP status, a body and a Retry-After; a body is its code.       *)
(***************************************************************************)
EXTENDS Integers, TLC

None == -1   \* null: no status, no code, no Retry-After

\* ---------------------------------------------------------------- taxonomy.ts
GATEWAY == [c \in {42900, 50000, 50001} |-> "retry"]
        @@ [c \in {40001} \cup (40101..40104) \cup (40301..40304) \cup (40311..40314) \cup {40411}
               |-> "fail"]
TRADING == (40401 :> "requote") @@ (40461 :> "requote") @@ (40441 :> "defer")
        @@ (40432 :> "retry") @@ (40465 :> "retry") @@ (40463 :> "reduce_size")
        @@ [c \in {40365, 40366, 40374, 40375, 40421} |-> "next_issuer"]
        @@ [c \in {40367, 40369} |-> "market_closed"]
        @@ [c \in {40368, 40370, 40412, 40442, 40462, 40464, 42901} \cup (40466..40470) |-> "fail"]
TRANSACTION == (40431 :> "rpc_fallback") @@ (40434 :> "fail")
DEFI == [c \in {40482, 40483} |-> "retry"] @@ (40481 :> "defer")
     @@ [c \in {40434, 40470, 40480, 40484, 40485, 40490} \cup (40450..40460) |-> "fail"]

BY_MODULE(module) == CASE module = "trading" -> TRADING
                       [] module = "transaction" -> TRANSACTION
                       [] module \in {"defi-data", "defi-transaction"} -> DEFI
                       [] OTHER -> << >>

\* A module's own meaning of a code comes before the gateway's.
classifyError(e) ==
    LET table == BY_MODULE(e.module) @@ GATEWAY
        Known(action) == [action |-> action, documented |-> TRUE]
    IN  CASE e.code \in DOMAIN table -> Known(table[e.code])
          [] e.status = 429 -> Known("retry")
          [] e.kind \in {"network", "timeout"} -> Known("retry")
          [] e.kind = "config" -> Known("fail")
          [] e.code = None /\ e.status >= 500 -> Known("retry")
          [] OTHER -> [action |-> IF e.code = None THEN "defer" ELSE "fail", documented |-> FALSE]

isTransient(e) == classifyError(e).action = "retry"

\* --------------------------------------------------------- envelope.ts, client.ts
Http2xx(status) == status \in 200..299
refusedRedirect(status) == status \in 300..399

NoJson == -3     \* a body that is no JSON object (HTML, a challenge, nothing)
NoCode == -2     \* a JSON object without an envelope code
\* success: body.success is not false.
parseEnvelope(status, body, success) ==
    LET bad == [ok |-> FALSE, kind |-> IF Http2xx(status) THEN "transport" ELSE "http", code |-> None]
    IN  CASE refusedRedirect(status) -> [bad EXCEPT !.kind = "http"]
          [] body \in {NoJson, NoCode} -> bad
          [] body = 0 /\ success /\ Http2xx(status) -> [ok |-> TRUE, kind |-> "api", code |-> 0]
          [] OTHER -> [ok |-> FALSE, kind |-> "api", code |-> body]

\* ------------------------------------------------------- errors.ts, taxonomy.ts
isRateLimited(status, code) == status = 429 \/ code = 42900

\* What one api_calls row is worth to the DX log.
dxFindingOf(row) ==
    IF row.status = None \/ (row.code = 0 /\ row.status < 400) THEN "none"
    ELSE LET kind == IF row.code # None THEN "api" ELSE IF row.status < 300 THEN "transport" ELSE "http"
         IN  CASE classifyError([kind |-> kind, module |-> row.module, status |-> row.status,
                                 code |-> row.code]).documented -> "none"
               [] row.code = None -> "undocumented_shape"
               [] OTHER -> "unknown_code"

==================================================================================
