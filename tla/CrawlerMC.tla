----------------------------- MODULE CrawlerMC -----------------------------
(* Instances of Crawler for TLC. *)
EXTENDS Crawler

CONSTANTS rank, uptime, PAPI_BR_CN, misspelt

MCName == {rank, uptime, PAPI_BR_CN, misspelt}

\* Lists that grow and shrink, two of one length, some with a name that
\* neither the registry nor PAPI knows.
MCFiles == {<<rank>>, <<misspelt>>, <<uptime, rank>>, <<PAPI_BR_CN, misspelt, rank>>}

\* Below a first line that is no number.
MCUnnumbered == {<<misspelt>>}

\* Two lists of one length.
MCRenames == {<<rank>>, <<uptime>>}
=============================================================================
