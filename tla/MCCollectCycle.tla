--------------------------- MODULE MCCollectCycle ---------------------------
EXTENDS CollectCycle

Setup(sources, n) == [sources |-> sources, cycles |-> n]

\* Every fetcher takes part; those whose state outlives a cycle do so twice.
MCSetups ==
    {Setup({"GEXMetrix", "AXLFI"}, 2),
     Setup({"money_flow"}, 2),
     Setup({"sector_rotation"}, 2),
     Setup({"GEXMetrix", "VIX", "dark_pool_metrics"}, 1),
     Setup({"crypto_derivatives", "dark_pool_metrics"}, 1),
     Setup({"crypto_derivatives"}, 2)}
    \cup {Setup({s}, 1) : s \in Sources}

\* Two sources with a table that has no mark, and the one with a history.
MarkSetups == {Setup({"vix_term_structure"}, 1), Setup({"sector_rotation"}, 1)}
HistorySetups == {Setup({"crypto_derivatives"}, 2)}
=============================================================================
