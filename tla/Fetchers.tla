------------------------------ MODULE Fetchers ------------------------------
(***************************************************************************)
(* What each fetcher of backend/fetchers/ returns, as a function of what   *)
(* its upstream services answer: the order of its fallbacks, which errors  *)
(* it swallows, and whether it marks generated values.                     *)
(*                                                                         *)
(* Values are abstracted to where they come from.  An upstream that hangs  *)
(* is a fetch() that does not return; CollectCycle has the timeout.  The   *)
(* optional libraries the fetchers import are taken to be installed.       *)
(***************************************************************************)
EXTENDS FiniteSets

\* An upstream answers usefully, answers without the fields that are read
\* (an empty list, a placeholder, another schema), or not at all.
Answers == {"ok", "empty", "down"}

\* Where values come from: an upstream, nowhere (NULLs and built-in defaults),
\* or the random generator of _mock_data().
Contents == {"real", "hollow", "generated"}

\* What fetch() hands to fetch_with_retry(): values with or without the
\* _internal_mock marker, or an exception.
Real     == [content |-> "real",      internal |-> FALSE]
Hollow   == [content |-> "hollow",    internal |-> FALSE]
Mock     == [content |-> "generated", internal |-> TRUE]
Unmarked == [content |-> "generated", internal |-> FALSE]
Raised   == [content |-> "none",      internal |-> FALSE]

\* The upstream services each fetcher may ask.
Upstreams ==
    [GEXMetrix          |-> {"gexmetrix"},
     AXLFI              |-> {"axlfi"},
     CBOE               |-> {"stats", "pcr"},
     VIX                |-> {"vixcls", "vxvcls"},
     yfinance           |-> {"yahoo"},
     crypto_derivatives |-> {"hyperliquid", "ccdata"},
     dark_pool_metrics  |-> {"squeezemetrics"},
     money_flow         |-> {"yahoo"},
     llm_inference      |-> {"package", "openai", "anthropic"},
     macro_data         |-> {"fred"},
     put_call_ratio     |-> {"cboe"},
     sector_rotation    |-> {"yahoo"},
     market_sentiment   |-> {"cnn", "altme"},
     vix_term_structure |-> {"cboe", "vxvcls"},
     squeezemetrics     |-> {"squeezemetrics"},
     finra              |-> {"finra", "yahoo"},
     ccdata             |-> {"ccdata", "coingecko"},
     stockgrid          |-> {"yahoo"},
     coinglass          |-> {"coinglass"},
     tradier            |-> {"tradier"},
     dbmf               |-> {"yahoo"},
     options_greeks     |-> {"yahoo"}]

Sources == DOMAIN Upstreams

\* What _mock_data() makes up: the options mock has no symbols at all.
MockContent(s) == IF s = "options_greeks" THEN "hollow" ELSE "generated"

\* The API keys a fetcher looks up.
KeysOf(s) ==
    CASE s \in {"AXLFI", "ccdata", "coinglass", "tradier"} -> {s}
      [] s = "crypto_derivatives" -> {"crypto"}
      [] s = "macro_data"         -> {"fred"}
      [] s = "llm_inference"      -> {"openai", "anthropic"}
      [] OTHER                    -> {}

\* _is_mock_mode(): sources that are not asked without a key.
MockMode(s, keys) ==
    s \in {"AXLFI", "ccdata", "coinglass", "tradier", "llm_inference"} /\ KeysOf(s) \cap keys = {}

-----------------------------------------------------------------------------
(* fetch() of each fetcher; a maps its upstreams to their answers.         *)

Useful(a) == {u \in DOMAIN a : a[u] = "ok"}

\* Every symbol's failure is logged and skipped, so an outage of all of them is
\* an answer with no snapshots, which _validate_data() accepts.
GEXMetrixFetch(a) == IF Useful(a) # {} THEN Real ELSE Hollow

\* Missing fields become zeros; errors are left to the retries.
AXLFIFetch(a) == CASE a["axlfi"] = "ok"    -> Real
                   [] a["axlfi"] = "empty" -> Hollow
                   [] a["axlfi"] = "down"  -> Raised

\* Missing fields become constants such as a put/call ratio of 0.8.
CBOEFetch(a) == IF \E u \in DOMAIN a : a[u] = "down" THEN Raised
                ELSE IF a["pcr"] = "ok" \/ a["stats"] = "ok" THEN Real
                ELSE Hollow

VIXFetch(a) == IF Useful(a) = {"vixcls", "vxvcls"} THEN Real ELSE Mock

\* Without a single price the dict of prices is empty: validation fails.
YFinanceFetch(a) == IF Useful(a) # {} THEN Real ELSE Raised

CryptoFetch(a, keys) ==
    IF a["hyperliquid"] = "ok" THEN Real
    ELSE IF "crypto" \in keys /\ a["ccdata"] = "ok" THEN Real
    ELSE IF "crypto" \in keys /\ a["ccdata"] = "empty" THEN Hollow
    ELSE Mock

\* A last line that ends before the DIX is a dict of NULLs; a blank field is an error.
DarkpoolFetch(a) == CASE a["squeezemetrics"] = "ok"    -> Real
                      [] a["squeezemetrics"] = "empty" -> Hollow
                      [] a["squeezemetrics"] = "down"  -> Mock

\* A result is kept for _CMF_CACHE_TTL.
FlowFetch(a, cached) == IF cached # "none" \/ Useful(a) # {} THEN Real ELSE Mock

\* The package, which accepts an answer without text, then OpenAI, then
\* Anthropic, then a template without a marker.
LLMFetch(a, keys) ==
    CASE a["package"] = "ok"    -> Real
      [] a["package"] = "empty" -> Hollow
      [] a["package"] = "down"  -> IF Useful(a) \cap keys # {} THEN Real ELSE Unmarked

\* A series without observations is NULL.
MacroFetch(a, keys) == CASE "fred" \notin keys  -> Mock
                         [] a["fred"] = "down"  -> Mock
                         [] a["fred"] = "empty" -> Hollow
                         [] OTHER               -> Real

\* A payload whose ratios are all zero is refused.
PutCallFetch(a) == IF Useful(a) # {} THEN Real ELSE Mock

\* A download that yields nothing is kept for _SECTOR_CACHE_TTL as well.
SectorFetch(a, cached) ==
    IF cached = "real" \/ (cached = "none" /\ Useful(a) # {}) THEN Real ELSE Hollow

\* CNN, then alternative.me, then _mock_data() without a marker.
SentimentFetch(a) == IF Useful(a) # {} THEN Real ELSE Unmarked

VIXTermFetch(a) == IF Useful(a) = {"cboe", "vxvcls"} THEN Real ELSE Mock

\* A last line without numbers is a dict of NULLs.
SqueezeMetricsFetch(a) == CASE a["squeezemetrics"] = "ok"    -> Real
                            [] a["squeezemetrics"] = "empty" -> Hollow
                            [] a["squeezemetrics"] = "down"  -> Mock

\* Symbols that neither service knows are NULL.
FinraFetch(a) == IF Useful(a) # {} THEN Real ELSE Hollow

\* CCData, whose missing fields become zeros, then CoinGecko, then generated
\* values without a marker.
CCDataFetch(a) == CASE a["ccdata"] = "ok"    -> Real
                    [] a["ccdata"] = "empty" -> Hollow
                    [] a["ccdata"] = "down"  -> IF a["coingecko"] = "ok" THEN Real ELSE Unmarked

StockGridFetch(a) == IF Useful(a) # {} THEN Real ELSE Hollow

CoinglassFetch(a) == CASE a["coinglass"] = "ok"    -> Real
                       [] a["coinglass"] = "empty" -> Hollow
                       [] a["coinglass"] = "down"  -> Mock

\* Symbols without a chain are NULL.
TradierFetch(a) == IF Useful(a) # {} THEN Real ELSE Hollow

DBMFFetch(a) == IF Useful(a) # {} THEN Real ELSE Mock

\* Any symbol with a chain is enough.
OptionsGreeksFetch(a) ==
    IF Useful(a) # {} THEN Real ELSE [content |-> MockContent("options_greeks"), internal |-> TRUE]

\* fetch() of source s.
Fetch(s, a, keys, cached) ==
    CASE s = "GEXMetrix"          -> GEXMetrixFetch(a)
      [] s = "AXLFI"              -> AXLFIFetch(a)
      [] s = "CBOE"               -> CBOEFetch(a)
      [] s = "VIX"                -> VIXFetch(a)
      [] s = "yfinance"           -> YFinanceFetch(a)
      [] s = "crypto_derivatives" -> CryptoFetch(a, keys)
      [] s = "dark_pool_metrics"  -> DarkpoolFetch(a)
      [] s = "money_flow"         -> FlowFetch(a, cached)
      [] s = "llm_inference"      -> LLMFetch(a, keys)
      [] s = "macro_data"         -> MacroFetch(a, keys)
      [] s = "put_call_ratio"     -> PutCallFetch(a)
      [] s = "sector_rotation"    -> SectorFetch(a, cached)
      [] s = "market_sentiment"   -> SentimentFetch(a)
      [] s = "vix_term_structure" -> VIXTermFetch(a)
      [] s = "squeezemetrics"     -> SqueezeMetricsFetch(a)
      [] s = "finra"              -> FinraFetch(a)
      [] s = "ccdata"             -> CCDataFetch(a)
      [] s = "stockgrid"          -> StockGridFetch(a)
      [] s = "coinglass"          -> CoinglassFetch(a)
      [] s = "tradier"            -> TradierFetch(a)
      [] s = "dbmf"               -> DBMFFetch(a)
      [] s = "options_greeks"     -> OptionsGreeksFetch(a)
=============================================================================
