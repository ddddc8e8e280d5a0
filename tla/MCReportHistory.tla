-------------------------- MODULE MCReportHistory --------------------------
(***************************************************************************)
(* ReportHistory on a small instance: a few signatures of each category,   *)
(* with the confidences, tiers and numbers of signals of signatures/*.yaml.*)
(***************************************************************************)
EXTENDS ReportHistory, TLC

MCTier == [s \in WafSigs |-> IF s = "cloudflare" THEN 2 ELSE 1]

MCBase ==
    "auth0" :> 92 @@ "okta" :> 92 @@ "oidc" :> 60
      @@ "recaptcha_v2" :> 93 @@ "recaptcha_v3" :> 90 @@ "turnstile" :> 94
      @@ "akamai" :> 92 @@ "datadome" :> 93 @@ "cloudflare" :> 90
      @@ "castle" :> 90 @@ "sift" :> 90 @@ "creepjs" :> 85

MCDefined == [s \in Signatures |-> IF s = "auth0" THEN 5 ELSE IF s = "okta" THEN 4 ELSE 2]

MCNames == <<"akamai", "auth0", "castle", "cloudflare", "creepjs", "datadome", "oidc", "okta",
             "recaptcha_v2", "recaptcha_v3", "sift", "turnstile">>
MCNameRank == [s \in Signatures |-> CHOOSE i \in DOMAIN MCNames : MCNames[i] = s]

Hits(one, two) == [s \in Signatures |-> IF s \in two THEN 2 ELSE IF s \in one THEN 1 ELSE 0]

\* Everything at once, and blocked: two vendors on a par, three WAFs, three libraries.
Fortress ==
    [hits |-> Hits({"auth0", "okta", "turnstile", "recaptcha_v3", "akamai", "datadome",
                    "cloudflare", "castle", "sift", "creepjs"}, {"oidc"}),
     renders |-> FALSE, widgets |-> {"turnstile"}, reads |-> TRUE,
     headers |-> Headers, cookies |-> {}, csrf |-> TRUE, mfa |-> TRUE, honeypot |-> TRUE,
     passwordField |-> TRUE, loginField |-> TRUE, flows |-> {"password"}, blocked |-> TRUE]

\* A form of the site's own beside generic signs of OIDC.
OwnForm ==
    [Fortress EXCEPT !.hits = Hits({"oidc", "recaptcha_v2", "akamai", "cloudflare", "castle"}, {}),
                     !.headers = Headers \ {"csp"}, !.reads = FALSE, !.blocked = FALSE]

\* A redirect to a login elsewhere: flows without a provider.
Redirect ==
    [hits |-> Hits({"recaptcha_v2", "recaptcha_v3"}, {}),
     renders |-> TRUE, widgets |-> {"recaptcha_v2"}, reads |-> FALSE,
     headers |-> {"hsts"}, cookies |-> CookieIssues, csrf |-> FALSE, mfa |-> FALSE,
     honeypot |-> FALSE, passwordField |-> FALSE, loginField |-> FALSE,
     flows |-> {"oauth_code"}, blocked |-> FALSE]

MCPages == {Fortress, OwnForm, Redirect}
MCFortress == {Fortress}

MCSymmetry == Permutations(Scans)
=============================================================================
