----------------------------- MODULE MCDiscovery ---------------------------
(* A site whose links spell its pages in several ways, the sitemap that    *)
(* its index lists, and a page of another host.                            *)
EXTENDS Discovery, TLC

Url(host, port, path, query) ==
  [scheme |-> "https", host |-> host, port |-> port, path |-> path, query |-> query, fragment |-> ""]

Site == <<"site", "com">>
WwwSite == <<"www", "Site", "com">>

Www == Url(WwwSite, NoPort, <<>>, <<>>)
WithPort == Url(Site, 443, <<"">>, <<>>)

FrontPage == Url(Site, NoPort, <<"">>, <<>>)
FrontQuery == Url(Site, NoPort, <<>>, <<<<"a", 1>>>>)
SlashQuery == [Url(WwwSite, 443, <<"">>, <<<<"utm_id", 1>>, <<"a", 1>>>>) EXCEPT !.fragment = "top"]
Plans == Url(Site, NoPort, <<"plans">>, <<<<"a", 1>>, <<"b", 2>>>>)
PlansToo == Url(WwwSite, NoPort, <<"", "plans", "">>, <<<<"b", 2>>, <<"utm_id", 1>>, <<"a", 1>>>>)
Map == Url(Site, NoPort, <<"map.xml">>, <<>>)
Other == Url(<<"other", "com">>, NoPort, <<"">>, <<>>)

AllUrls == {FrontPage, FrontQuery, SlashQuery, Plans, PlansToo, Map, Other}

SomeBases == {Www, WithPort}

LowerCase == [l \in {"site", "Site", "com", "www", "other"} |-> IF l = "Site" THEN "site" ELSE l]

SortedParams == <<"a", "b", "utm_id">>

Weights == [w \in {"site", "other", "", "plans", "map.xml"} |-> IF w = "plans" THEN 10 ELSE 0]

SomeLists == {<<>>, <<FrontPage, Other>>, <<PlansToo, SlashQuery>>}

SomeSitemaps ==
  {[locs |-> <<FrontQuery>>, subs |-> <<>>],
   [locs |-> <<Plans>>, subs |-> <<Other>>],
   [locs |-> <<Map, Other>>, subs |-> <<Map, Other>>]}

All == [fetch_robots_txt |-> TRUE, fetch_sitemap |-> TRUE, parse_nav |-> TRUE, parse_footer |-> TRUE,
        parse_internal_links |-> TRUE, same_domain_only |-> TRUE]

SomeOptions ==
  {All,
   [All EXCEPT !.fetch_robots_txt = FALSE, !.parse_internal_links = FALSE, !.parse_footer = FALSE,
               !.same_domain_only = FALSE],
   [All EXCEPT !.fetch_sitemap = FALSE, !.parse_nav = FALSE]}
=============================================================================
