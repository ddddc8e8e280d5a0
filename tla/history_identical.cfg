\* Two scans see one page; nothing fails and nothing is run again.
SPECIFICATION Spec
CONSTANTS
    AuthSigs = {"auth0", "okta", "oidc"}
    GenericSigs = {"oidc"}
    CaptchaSigs = {"recaptcha_v2", "recaptcha_v3", "turnstile"}
    ScoreSigs = {"recaptcha_v3"}
    V2Sigs = {"recaptcha_v2"}
    WafSigs = {"akamai", "datadome", "cloudflare"}
    FingerprintSigs = {"castle", "sift", "creepjs"}
    Flows = {"password", "oauth_code"}
    Tier <- MCTier
    Base <- MCBase
    Defined <- MCDefined
    NameRank <- MCNameRank
    None = None
    Custom = "custom"
    Reads = "reads"
    Scans = {s1, s2}
    Readers = {d1}
    Pages <- MCFortress
    Window = 2
    LastMoment = 4
    Faulty = {}
    MaxMishaps = 0
SYMMETRY MCSymmetry
CHECK_DEADLOCK FALSE
INVARIANT
    IdenticalScansEmptyDiff
