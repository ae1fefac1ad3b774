\* Two posts, three fetches and three toasts at once; two tabs of the browser, three languages.
CONSTANTS
    Providers = {"google", "github"}
    PostSlots = {1, 2}
    FetchSlots = {1, 2, 3}
    MaxToasts = 3
    Visits <- SomeVisits
    Windows = {"w1", "w2"}
    Locales = {"en", "es", "fr"}
    Browsers <- SomeBrowsers
SPECIFICATION Spec
INVARIANTS
    WebInv
    PreferencesInv
PROPERTIES
    BindingsNeedAccounts
    FetchingEnds
    DashboardCatchesUp
