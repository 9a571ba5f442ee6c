CONSTANTS
  IntHalf <- MC_IntHalf
  Int64Half <- MC_Int64Half
  USECS_PER_DAY <- MC_USECS_PER_DAY
  POSTGRES_EPOCH_JDATE <- MC_POSTGRES_EPOCH_JDATE
  TIMESTAMP_END_JULIAN <- MC_TIMESTAMP_END_JULIAN
  JULIAN_MAXYEAR <- MC_JULIAN_MAXYEAR
  JULIAN_MAXMONTH <- MC_JULIAN_MAXMONTH
  TsInputs <- MC_TsInputs
  IvInputs <- MC_IvInputs
  MaxCalls <- MC_MaxCalls
SPECIFICATION Spec
PROPERTIES IntervalPlChecked MonthStepsExact TimestampMiJustified
