\* One navigation, without any fault: whose badge is it in the end?
CONSTANTS
    s1 = s1
    s2 = s2
    e1 = e1
    Home = Home
    Subjects = {s1, s2}
    Tweets = {e1}
    TweetOf <- FirstSubject
    Slots = {1, 2}
    MaxVersion = 2
    Budgets <- NavigatingBudgets
SPECIFICATION MCSpec
PROPERTIES
    BadgeIsCurrent
