---------------------------- MODULE MCSitePages ----------------------------
EXTENDS SitePages, TLC

Text(languages, status) == [languages |-> languages, status |-> status]

\* The latest privacy policy is not there in English, and the one of the
\* public notice only in Chinese; the latest terms are there in English alone.
Published == [p \in Policies |->
    IF p = Privacy
    THEN (1 :> Text(<<"zh", "en">>, "effective")) @@ (2 :> Text(<<"ja", "zh">>, "effective"))
         @@ (3 :> Text(<<"zh">>, "public_notice"))
    ELSE (1 :> Text(<<"zh">>, "effective")) @@ (2 :> Text(<<"en">>, "effective"))]

Symmetry == Permutations(Openings) \cup Permutations(Calls)
=============================================================================
