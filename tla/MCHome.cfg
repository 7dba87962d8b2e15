SPECIFICATION FairSpec
INVARIANTS TypeOK ModeShown LabelColour OneLateAlarm
PROPERTIES RefinesPanel SirenStops LampGoesOut
