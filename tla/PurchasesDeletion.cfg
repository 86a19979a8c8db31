SPECIFICATION Spec
CONSTANTS
    d1 = d1
    d2 = d2
    olga = olga
    ivan = ivan
    Dates <- MCDates
    NoDate = NoDate
    Users <- MCUsers
    Employees <- MCEmployees
    Nobody = Nobody
    MaxAttempts = 1
PROPERTY
    NoReminderAfterDeletion
