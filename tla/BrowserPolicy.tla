----------------------------- MODULE BrowserPolicy -----------------------------
(* Which browsers may use the page: the recognition of a user agent             *)
(* (browserDetection.ts), its evaluation against the policy of the backend      *)
(* (browserPolicy.ts) and what the backend accepts as a policy                  *)
(* (core/browser_policy.py).  A user agent is a function from the tokens it      *)
(* contains to their numbers, NoVersion where there is none.                    *)
EXTENDS Integers

NoVersion == -1
NoPolicy == [version |-> 0]   \* browser_policy: null, or absent

Families == {"chrome", "edge", "firefox", "safari", "ios_safari", "android_chrome"}

\* "iPhone" stands for iPhone, iPad and iPod, its number is that of the OS;
\* "Shell" for SamsungBrowser, OPR and Vivaldi.
Tokens == {"iPhone", "Edg", "Shell", "Android", "Firefox", "Chrome", "Version", "Safari"}

Recognized(family, version) == [family |-> family, major |-> version]
Unknown == Recognized("unknown", NoVersion)

Numbered(ua, token) == token \in DOMAIN ua /\ ua[token] # NoVersion

DetectBrowser(ua) ==
  IF "iPhone" \in DOMAIN ua THEN Recognized("ios_safari", ua["iPhone"])
  ELSE IF Numbered(ua, "Edg") THEN Recognized("edge", ua["Edg"])
  ELSE IF "Shell" \in DOMAIN ua THEN Unknown
  ELSE IF "Android" \in DOMAIN ua
  THEN IF "Chrome" \in DOMAIN ua THEN Recognized("android_chrome", ua["Chrome"]) ELSE Unknown
  ELSE IF Numbered(ua, "Firefox") THEN Recognized("firefox", ua["Firefox"])
  ELSE IF "Chrome" \in DOMAIN ua THEN Recognized("chrome", ua["Chrome"])
  ELSE IF Numbered(ua, "Version") /\ "Safari" \in DOMAIN ua
  THEN Recognized("safari", ua["Version"])
  ELSE Unknown

\* A policy names every family, each with a least version above 0.
ValidPolicy(p) ==
  /\ p.version \in Nat \ {0}
  /\ DOMAIN p.browsers = Families
  /\ \A f \in Families : p.browsers[f].minimum \in Nat \ {0} /\ p.browsers[f].enabled \in BOOLEAN

\* The least version is compared with nothing.
BugEvaluate(browser, policy) ==
  IF policy = NoPolicy THEN "POLICY_UNAVAILABLE"
  ELSE IF browser.family = "unknown" THEN "UNSUPPORTED_BROWSER"
  ELSE IF ~policy.browsers[browser.family].enabled THEN "UNSUPPORTED_BROWSER"
  ELSE IF browser.major = NoVersion THEN "VERSION_UNKNOWN"
  ELSE "SUPPORTED"

Evaluate(browser, policy) ==
  IF policy = NoPolicy THEN "POLICY_UNAVAILABLE"
  ELSE IF browser.family = "unknown" THEN "UNSUPPORTED_BROWSER"
  ELSE IF ~policy.browsers[browser.family].enabled THEN "UNSUPPORTED_BROWSER"
  ELSE IF browser.major = NoVersion THEN "VERSION_UNKNOWN"
  ELSE IF browser.major < policy.browsers[browser.family].minimum THEN "VERSION_TOO_OLD"
  ELSE "SUPPORTED"
===============================================================================
