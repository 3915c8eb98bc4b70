SPECIFICATION Spec
CONSTANT Offers <- MCOffers
INVARIANT ReportsTwice
INVARIANT OnlyContainmentIsOverdue
INVARIANT HealthyIsCurrent
INVARIANT HandlerFits
