\* Three scans of one URL, one of them perhaps run again, and a request for a diff.
SPECIFICATION Spec
CONSTANTS
    AuthSigs = {"auth0", "okta", "oidc"}
    GenericSigs = {"oidc"}
    CaptchaSigs = {"recaptcha_v2", "recaptcha_v3", "turnstile"}
    ScoreSigs = {"recaptcha_v3"}
    V2Sigs = {"recaptcha_v2"}
    WafSigs = {"akamai", "datadome", "cloudflare"}
    FingerprintSigs = {"castle", "sift", "creepjs"}
    Flows = {"password", "oauth_code"}
    Tier <- MCTier
    Base <- MCBase
    Defined <- MCDefined
    NameRank <- MCNameRank
    None = None
    Custom = "custom"
    Reads = "reads"
    Scans = {s1, s2, s3}
    Readers = {d1}
    Pages <- MCPages
    Window = 2
    LastMoment = 4
    Faulty = {"security"}
    MaxMishaps = 1
SYMMETRY MCSymmetry
CHECK_DEADLOCK FALSE
INVARIANTS
    TypeOK
    AnswerIsStored
    DiffRebuilds
    DiffExplained
    ScoresAddUp
