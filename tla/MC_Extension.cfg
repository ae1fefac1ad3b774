\* Two subjects and two messages under way.
CONSTANTS
    s1 = s1
    s2 = s2
    e1 = e1
    Home = Home
    Subjects = {s1, s2}
    Tweets = {e1}
    TweetOf <- FirstSubject
    Slots = {1, 2}
    MaxVersion = 2
    Budgets <- SomeBudgets
SPECIFICATION MCSpec
INVARIANTS
    ShowInv
    RefreshSkipsCache
PROPERTIES
    BadgeAppears
